---------------------------- MODULE Spec2Model ----------------------------
(***************************************************************************)
(* A model of the distributed file system of                               *)
(* harshvardha/distributed_file_system: the master (coordinator) metadata  *)
(* store and its RPC handlers, the chunk servers (data nodes) with their   *)
(* storage index, chunk reports and heartbeats, and the client             *)
(* orchestrator for upload and download.                                   *)
(*                                                                         *)
(* Every metadata method takes the single metadata lock for its whole      *)
(* body, so one method call is one atomic step.  An RPC handler is a       *)
(* sequence of such calls, so a handler is several steps and handlers of   *)
(* different callers interleave between the calls.                         *)
(***************************************************************************)
EXTENDS Integers, Sequences, FiniteSets, Bags, TLC

\* ------------------------------------------------------------ constants

\* common.ChunkSize is 64 MiB; the model scales it down so that byte
\* sequences of several chunks can be enumerated.
ChunkSize == 2

\* common.ReplicationFactor
ReplicationFactor == 3

\* 30*time.Second in GetAvailableChunkServers, in seconds
LivenessWindow == 30

\* time.NewTicker(10 * time.Second) in startHeartbeat, in seconds
HeartbeatInterval == 10

\* context.WithTimeout(..., 5*time.Second) in sendHeartbeat, in seconds
HeartbeatTimeout == 5

\* ---------------------------------------------------------------- bounds

\* the clock advances in steps of HeartbeatInterval, at most MaxTicks times
MaxTicks == 3

\* the largest count asked of GetAvailableChunkServers directly
MaxK == 3

\* the number of requests the callers of the open master send in all
MaxCalls == 3

\* the largest chunk index GenerateChunkHandle is called with directly
MaxIndex == 11

\* the longest chunk list the direct calls of AddChunkToFile build
MaxAppends == 2

\* ---------------------------------------------------------------- helpers

Range(s) == {s[i] : i \in 1..Len(s)}

NoDuplicates(s) == \A i, j \in 1..Len(s) : s[i] = s[j] => i = j

Min(a, b) == IF a <= b THEN a ELSE b

\* Go's slice expression s[lo:hi] (0-based, hi exclusive), 0 <= lo <= hi <= len(s)
Slice(s, lo, hi) == [k \in 1..(hi - lo) |-> s[lo + k]]

RECURSIVE Orders(_)
\* every order in which a Go map range can visit the keys S
Orders(S) ==
    IF S = {} THEN {<<>>}
    ELSE UNION {{<<x>> \o o : o \in Orders(S \ {x})} : x \in S}

\* Go's integer division truncates toward zero; b > 0
GoDiv(a, b) == IF a >= 0 THEN a \div b ELSE -((-a) \div b)

\* Go's remainder has the sign of the dividend
GoMod(a, b) == a - b * GoDiv(a, b)

\* ----------------------------------------------------------- common/utils

DigitChar(d) == <<"0", "1", "2", "3", "4", "5", "6", "7", "8", "9">>[d + 1]

RECURSIVE Decimal(_)
\* fmt's %d of an int, as a sequence of characters
Decimal(i) ==
    IF i < 0 THEN <<"-">> \o Decimal(-i)
    ELSE IF i < 10 THEN <<DigitChar(i)>>
    ELSE Decimal(i \div 10) \o <<DigitChar(i % 10)>>

\* a faulty pre-image without the "-" between the name and the index
HandlePreimageUnseparated(filename, chunkIndex) == filename \o Decimal(chunkIndex)

\* fmt.Sprintf("%s-%d", filename, chunkIndex): the bytes that are hashed.
\* File names are sequences of characters.
HandlePreimage(filename, chunkIndex) == filename \o <<"-">> \o Decimal(chunkIndex)

\* The handle is the hex form of the first 16 bytes of the SHA-256 of the
\* pre-image.  The hash is taken to be collision free on the pre-images that
\* occur, so a handle is represented by its pre-image.
GenerateChunkHandle(filename, chunkIndex) == HandlePreimage(filename, chunkIndex)

\* a faulty CalculateNumChunks that adds a chunk also to an exact multiple
CalculateNumChunksPlusOne(filesize) == GoDiv(filesize, ChunkSize) + 1

\* a faulty CalculateNumChunks that drops the partial last chunk
CalculateNumChunksFloor(filesize) == GoDiv(filesize, ChunkSize)

\* a faulty CalculateNumChunks that gives an empty file one chunk
CalculateNumChunksAtLeastOne(filesize) ==
    LET numChunks == GoDiv(filesize, ChunkSize)
    IN  IF filesize = 0 THEN 1
        ELSE IF GoMod(filesize, ChunkSize) # 0 THEN numChunks + 1 ELSE numChunks

CalculateNumChunks(filesize) ==
    LET numChunks == GoDiv(filesize, ChunkSize)
    IN  IF GoMod(filesize, ChunkSize) # 0 THEN numChunks + 1 ELSE numChunks

\* ----------------------------------------------------------------- state

VARIABLES
    files,          \* Metadata.files: filename -> FileMetadata
    chunks,         \* Metadata.chunks: chunk handle -> ChunkMetadata
    chunkServers,   \* Metadata.chunkServers: address -> ChunkServerInfo
    now,            \* the wall clock, in seconds
    panicked,       \* the master process died of a runtime panic
    rpc,            \* per caller: the master handler serving its request
    avail,          \* the last direct GetAvailableChunkServers call and its result
    calls,          \* the number of requests the callers have sent so far
    storage,        \* per chunk server: Storage.chunks and the files of its directory
    reports,        \* the reportChunkToMaster goroutines under way, a bag of <<address, handle>>
    client,         \* the client process: its operation, position and local variables
    uploads,        \* history: the uploads the client was asked for, in order
    lostReport,     \* history: the last report that failed, and the heartbeats since
    reportedBefore, \* history, per caller: the locations on record when its download began
    probe,          \* the last direct call of a Storage method or a function of common, and its result
    held,           \* per caller: the FileMetadata that GetFile gave its DownloadFile handler
    mu,             \* the RWMutex of Metadata and of each Storage: its writer and its readers
    threads         \* the goroutines that take the locks: where each is in the method it runs

masterVars == <<files, chunks, chunkServers, now, panicked, rpc, avail>>

nodeVars == <<storage, reports>>

clientVars == <<client, uploads>>

\* The history variables and the records of the direct calls are written by
\* the specification that needs them; the steps of the others leave them alone.
\* The locks and the goroutines that take them are the matter of the
\* specifications of the locks; elsewhere a method call is one step.
lockVars == <<mu, threads>>

historyVars == <<lostReport, reportedBefore, probe, held, lockVars>>

vars == <<masterVars, calls, nodeVars, clientVars, historyVars>>

\* a step of the master alone
MasterOnly == UNCHANGED <<calls, nodeVars, clientVars, historyVars>>

\* ------------------------------------------------ master/metadata.go

\* the chunk servers whose last heartbeat is less than 30 s old
LiveServers ==
    {a \in DOMAIN chunkServers : now - chunkServers[a].LatestHeartbeat < LivenessWindow}

\* CreatedAt is written here and read nowhere; the record leaves it out.
AddFile(filename, filesize, chunkCount) ==
    files' = [f \in DOMAIN files \cup {filename} |->
                IF f = filename
                THEN [Filename |-> filename, Filesize |-> filesize,
                      ChunkCount |-> chunkCount, Chunks |-> <<>>]
                ELSE files[f]]

AddChunkToFile(filename, chunkHandle) ==
    files' = IF filename \in DOMAIN files
             THEN [files EXCEPT ![filename].Chunks = Append(@, chunkHandle)]
             ELSE files

\* a faulty AddChunk that keeps the locations of a record it makes again
AddChunkKeeping(chunkHandle, filename, chunkIndex) ==
    chunks' = [h \in DOMAIN chunks \cup {chunkHandle} |->
                 IF h = chunkHandle
                 THEN [ChunkHandle |-> chunkHandle,
                       Locations |-> IF h \in DOMAIN chunks THEN chunks[h].Locations
                                     ELSE <<>>,
                       Version |-> 1, Filename |-> filename, ChunkIndex |-> chunkIndex]
                 ELSE chunks[h]]

\* a faulty AddChunk that makes no record
AddChunkNothing(chunkHandle, filename, chunkIndex) == chunks' = chunks

\* a faulty AddChunk that counts the versions of a record it makes again
AddChunkBumping(chunkHandle, filename, chunkIndex) ==
    chunks' = [h \in DOMAIN chunks \cup {chunkHandle} |->
                 IF h = chunkHandle
                 THEN [ChunkHandle |-> chunkHandle, Locations |-> <<>>,
                       Version |-> IF h \in DOMAIN chunks THEN chunks[h].Version + 1 ELSE 1,
                       Filename |-> filename, ChunkIndex |-> chunkIndex]
                 ELSE chunks[h]]

AddChunk(chunkHandle, filename, chunkIndex) ==
    chunks' = [h \in DOMAIN chunks \cup {chunkHandle} |->
                 IF h = chunkHandle
                 THEN [ChunkHandle |-> chunkHandle, Locations |-> <<>>,
                       Version |-> 1, Filename |-> filename,
                       ChunkIndex |-> chunkIndex]
                 ELSE chunks[h]]

\* a faulty AddChunkLocation that takes an address it finds out of the list
AddChunkLocationToggle(chunkHandle, serverAddress) ==
    chunks' = IF chunkHandle \notin DOMAIN chunks THEN chunks
              ELSE IF serverAddress \in Range(chunks[chunkHandle].Locations)
              THEN [chunks EXCEPT ![chunkHandle].Locations =
                       SelectSeq(@, LAMBDA a : a # serverAddress)]
              ELSE [chunks EXCEPT ![chunkHandle].Locations = Append(@, serverAddress)]

\* a faulty AddChunkLocation that keeps one location for a chunk
AddChunkLocationFirstOnly(chunkHandle, serverAddress) ==
    chunks' = IF chunkHandle \in DOMAIN chunks /\ chunks[chunkHandle].Locations = <<>>
              THEN [chunks EXCEPT ![chunkHandle].Locations = Append(@, serverAddress)]
              ELSE chunks

\* a faulty AddChunkLocation that makes a chunk record for a handle that has none
AddChunkLocationCreating(chunkHandle, serverAddress) ==
    chunks' = [h \in DOMAIN chunks \cup {chunkHandle} |->
                 IF h # chunkHandle THEN chunks[h]
                 ELSE IF h \notin DOMAIN chunks
                 THEN [ChunkHandle |-> chunkHandle, Locations |-> <<serverAddress>>,
                       Version |-> 1, Filename |-> <<>>, ChunkIndex |-> 0]
                 ELSE IF serverAddress \in Range(chunks[h].Locations) THEN chunks[h]
                 ELSE [chunks[h] EXCEPT !.Locations = Append(@, serverAddress)]]

\* a faulty AddChunkLocation that appends without looking for the address
AddChunkLocationUnchecked(chunkHandle, serverAddress) ==
    chunks' = IF chunkHandle \in DOMAIN chunks
              THEN [chunks EXCEPT ![chunkHandle].Locations = Append(@, serverAddress)]
              ELSE chunks

AddChunkLocation(chunkHandle, serverAddress) ==
    chunks' = IF chunkHandle \in DOMAIN chunks
                 /\ serverAddress \notin Range(chunks[chunkHandle].Locations)
              THEN [chunks EXCEPT ![chunkHandle].Locations = Append(@, serverAddress)]
              ELSE chunks

\* The inventory is the list ListChunks built by ranging over a map: its
\* order is arbitrary and nothing reads it, so it is kept as a set.
\* a faulty RegisterChunkServer that adds the reported handles to the
\* inventory it has
RegisterChunkServerMerging(address, handles) ==
    chunkServers' = [a \in DOMAIN chunkServers \cup {address} |->
                       IF a = address
                       THEN [Address |-> address, LatestHeartbeat |-> now,
                             Chunks |-> IF a \in DOMAIN chunkServers
                                        THEN chunkServers[a].Chunks \o handles
                                        ELSE handles]
                       ELSE chunkServers[a]]

\* a faulty RegisterChunkServer that leaves the heartbeat time of a server
\* it knows as it is
RegisterChunkServerOnce(address, handles) ==
    chunkServers' = [a \in DOMAIN chunkServers \cup {address} |->
                       IF a = address
                       THEN [Address |-> address,
                             LatestHeartbeat |-> IF a \in DOMAIN chunkServers
                                                 THEN chunkServers[a].LatestHeartbeat
                                                 ELSE now,
                             Chunks |-> handles]
                       ELSE chunkServers[a]]

RegisterChunkServer(address, handles) ==
    chunkServers' = [a \in DOMAIN chunkServers \cup {address} |->
                       IF a = address
                       THEN [Address |-> address, LatestHeartbeat |-> now,
                             Chunks |-> handles]
                       ELSE chunkServers[a]]

RECURSIVE ScanServersInclusive(_, _, _)
\* a faulty loop that takes a heartbeat of exactly 30 s ago for a live server
ScanServersInclusive(order, servers, replicationFactor) ==
    IF order = <<>> THEN servers
    ELSE LET address == Head(order)
         IN  IF now - chunkServers[address].LatestHeartbeat <= LivenessWindow
             THEN LET appended == Append(servers, address)
                  IN  IF Len(appended) >= replicationFactor
                      THEN appended
                      ELSE ScanServersInclusive(Tail(order), appended, replicationFactor)
             ELSE ScanServersInclusive(Tail(order), servers, replicationFactor)

RECURSIVE ScanServers(_, _, _)
\* the loop of GetAvailableChunkServers over the servers in the order `order`
ScanServers(order, servers, replicationFactor) ==
    IF order = <<>> THEN servers
    ELSE LET address == Head(order)
         IN  IF now - chunkServers[address].LatestHeartbeat < LivenessWindow
             THEN LET appended == Append(servers, address)
                  IN  IF Len(appended) >= replicationFactor
                      THEN appended
                      ELSE ScanServers(Tail(order), appended, replicationFactor)
             ELSE ScanServers(Tail(order), servers, replicationFactor)

\* a faulty GetAvailableChunkServers that does not look at the heartbeat age
GetRegisteredChunkServers(replicationFactor) ==
    {SubSeq(order, 1, Min(Len(order), replicationFactor)) :
        order \in Orders(DOMAIN chunkServers)}

\* Every list the call can return: the range over the map visits the servers
\* in an order the runtime picks.
GetAvailableChunkServers(replicationFactor) ==
    {ScanServers(order, <<>>, replicationFactor) : order \in Orders(DOMAIN chunkServers)}

\* ------------------------------------------------------------------ init

Idle == [pc |-> "idle"]

NoQuery == [k |-> -1, servers |-> <<>>, live |-> {}, registered |-> {}]

NoReport == [address |-> "", chunkHandle |-> <<>>, heartbeat |-> FALSE]

\* ------------------------------------------------ heartbeats and the clock

\* Heartbeat RPC of the master: registers or refreshes the sender.
Heartbeat(address, handles) ==
    /\ ~panicked
    /\ RegisterChunkServer(address, handles)
    /\ UNCHANGED <<files, chunks, now, panicked, rpc, avail>>

\* the clock moves on by one heartbeat interval
Tick(maxTicks) ==
    /\ now < maxTicks * HeartbeatInterval
    /\ now' = now + HeartbeatInterval
    /\ UNCHANGED <<files, chunks, chunkServers, panicked, rpc, avail>>

\* a direct call of GetAvailableChunkServers(k)
QueryAvailable(k) ==
    /\ ~panicked
    /\ \E servers \in GetAvailableChunkServers(k) :
          avail' = [k |-> k, servers |-> servers, live |-> LiveServers,
                    registered |-> DOMAIN chunkServers]
    /\ UNCHANGED <<files, chunks, chunkServers, now, panicked, rpc>>

NoProbe == [op |-> "none"]

\* the locks and their goroutines are not part of the specification
NoLocks == mu = <<>> /\ threads = <<>>

NoHistory ==
    /\ lostReport = NoReport
    /\ reportedBefore = <<>>
    /\ probe = NoProbe
    /\ held = <<>>
    /\ NoLocks

\* the chunk servers and the client are not part of the specification
NoSystem ==
    /\ storage = <<>>
    /\ reports = EmptyBag
    /\ client = Idle
    /\ uploads = <<>>

\* a caller sends one more request
Send == calls < MaxCalls /\ calls' = calls + 1 /\ UNCHANGED <<nodeVars, clientVars>>

\* ------------------------------------------------------- SpecAvail
\* Heartbeats of three chunk servers, the clock, and direct calls of
\* GetAvailableChunkServers.

AvailNodes == {"n1", "n2", "n3"}

InitAvail ==
    /\ files = <<>>
    /\ chunks = <<>>
    /\ chunkServers = <<>>
    /\ now = 0
    /\ panicked = FALSE
    /\ rpc = <<>>
    /\ avail = NoQuery
    /\ calls = 0
    /\ NoSystem
    /\ NoHistory

AvailHeartbeat == \E a \in AvailNodes : Heartbeat(a, {}) /\ MasterOnly

AvailTick == Tick(MaxTicks) /\ MasterOnly

AvailQuery == \E k \in 0..MaxK : QueryAvailable(k) /\ MasterOnly

NextAvail == AvailHeartbeat \/ AvailTick \/ AvailQuery

SpecAvail == InitAvail /\ [][NextAvail]_vars

\* ------------------------------------------------ master/server.go handlers
\* rpc[c] is the handler serving caller c's request: its program counter and
\* its local variables.  It is Idle between requests and holds the response
\* at pc "return".  A step of the master constrains the master's variables;
\* the step of the caller or chunk server that makes the request says what
\* happens to the rest.

\* caller c has no request in flight: its last response, if any, is delivered
Free(c) == rpc[c].pc \in {"idle", "return"}

Placement(chunkHandle, addresses, chunkIndex) ==
    [ChunkHandle |-> chunkHandle, ChunkServerAddresses |-> addresses,
     ChunkIndex |-> chunkIndex]

\* UploadFile up to and including AddFile.  make([]string, 0, chunkCount) in
\* AddFile panics on a negative capacity, which ends the master process.
UploadFileBegin(c, filename, filesize) ==
    /\ ~panicked
    /\ Free(c)
    /\ LET numChunks == CalculateNumChunks(filesize)
       IN  IF numChunks < 0
           THEN /\ panicked' = TRUE
                /\ rpc' = [rpc EXCEPT ![c] = [pc |-> "panic", op |-> "UploadFile",
                                              Filename |-> filename,
                                              Filesize |-> filesize,
                                              err |-> "panic"]]
                /\ UNCHANGED files
           ELSE /\ AddFile(filename, filesize, numChunks)
                /\ rpc' = [rpc EXCEPT ![c] =
                             [pc |-> IF numChunks = 0 THEN "return" ELSE "AddChunk",
                              op |-> "UploadFile", Filename |-> filename,
                              Filesize |-> filesize, numChunks |-> numChunks,
                              i |-> 0, chunkLocations |-> <<>>, err |-> "nil"]]
                /\ UNCHANGED panicked
    /\ UNCHANGED <<chunks, chunkServers, now, avail>>

\* the loop body of UploadFile: s.metadata.AddChunk
UploadFileAddChunk(c) ==
    /\ ~panicked
    /\ rpc[c].pc = "AddChunk"
    /\ AddChunk(GenerateChunkHandle(rpc[c].Filename, rpc[c].i), rpc[c].Filename, rpc[c].i)
    /\ rpc' = [rpc EXCEPT ![c].pc = "AddChunkToFile"]
    /\ UNCHANGED <<files, chunkServers, now, panicked, avail>>

\* the loop body of UploadFile: s.metadata.AddChunkToFile
UploadFileAddChunkToFile(c) ==
    /\ ~panicked
    /\ rpc[c].pc = "AddChunkToFile"
    /\ AddChunkToFile(rpc[c].Filename, GenerateChunkHandle(rpc[c].Filename, rpc[c].i))
    /\ rpc' = [rpc EXCEPT ![c].pc = "GetServers"]
    /\ UNCHANGED <<chunks, chunkServers, now, panicked, avail>>

\* the loop body of UploadFile: GetAvailableChunkServers and the placement
UploadFileGetServers(c) ==
    /\ ~panicked
    /\ rpc[c].pc = "GetServers"
    /\ \E servers \in GetAvailableChunkServers(ReplicationFactor) :
          rpc' = [rpc EXCEPT
                    ![c].chunkLocations =
                        Append(@, Placement(GenerateChunkHandle(rpc[c].Filename, rpc[c].i),
                                            servers, rpc[c].i)),
                    ![c].i = @ + 1,
                    ![c].pc = IF rpc[c].i + 1 < rpc[c].numChunks
                              THEN "AddChunk" ELSE "return"]
    /\ UNCHANGED <<files, chunks, chunkServers, now, panicked, avail>>

\* a faulty DownloadFile that answers for a missing file as for an empty one
DownloadFileBeginEmpty(c, filename) ==
    /\ ~panicked
    /\ Free(c)
    /\ rpc' = [rpc EXCEPT ![c] =
                 [pc |-> IF filename \in DOMAIN files /\ files[filename].Chunks # <<>>
                         THEN "GetChunk" ELSE "return",
                  op |-> "DownloadFile", Filename |-> filename,
                  Filesize |-> IF filename \in DOMAIN files
                               THEN files[filename].Filesize ELSE 0,
                  fileChunks |-> IF filename \in DOMAIN files
                                 THEN files[filename].Chunks ELSE <<>>,
                  i |-> 0, chunkLocations |-> <<>>, err |-> "nil"]]
    /\ UNCHANGED <<files, chunks, chunkServers, now, panicked, avail>>

\* DownloadFile up to the start of its loop.  GetFile returns a pointer to
\* the record; a record's Filesize never changes and its Chunks only grows
\* while it is the map's entry, so what the handler reads through the pointer
\* is the record as it is at one instant, taken here.
DownloadFileBegin(c, filename) ==
    /\ ~panicked
    /\ Free(c)
    /\ rpc' = [rpc EXCEPT ![c] =
                 IF filename \notin DOMAIN files
                 THEN [pc |-> "return", op |-> "DownloadFile", Filename |-> filename,
                       Filesize |-> 0, fileChunks |-> <<>>, i |-> 0,
                       chunkLocations |-> <<>>, err |-> "file not found"]
                 ELSE [pc |-> IF files[filename].Chunks = <<>> THEN "return" ELSE "GetChunk",
                       op |-> "DownloadFile", Filename |-> filename,
                       Filesize |-> files[filename].Filesize,
                       fileChunks |-> files[filename].Chunks, i |-> 0,
                       chunkLocations |-> <<>>, err |-> "nil"]]
    /\ UNCHANGED <<files, chunks, chunkServers, now, panicked, avail>>

\* DownloadFile's call of GetFile taken by itself: under the read lock it
\* finds the record and returns the pointer to it, which the handler keeps in
\* `file`.  Filesize is written once, when the record is made.
DownloadFileGetFile(c, filename) ==
    /\ ~panicked
    /\ Free(c)
    /\ rpc' = [rpc EXCEPT ![c] =
                 IF filename \notin DOMAIN files
                 THEN [pc |-> "return", op |-> "DownloadFile", Filename |-> filename,
                       Filesize |-> 0, fileChunks |-> <<>>, i |-> 0,
                       chunkLocations |-> <<>>, err |-> "file not found"]
                 ELSE [pc |-> "range", op |-> "DownloadFile", Filename |-> filename,
                       Filesize |-> files[filename].Filesize,
                       fileChunks |-> <<>>, i |-> 0,
                       chunkLocations |-> <<>>, err |-> "nil"]]
    /\ UNCHANGED <<files, chunks, chunkServers, now, panicked, avail>>

\* the FileMetadata that the pointer `file` of the handler refers to: the
\* map's entry, or the record an AddFile of the name has replaced since
Pointee(c) == IF held[c].live THEN files[rpc[c].Filename] ELSE held[c].record

\* DownloadFile's `range file.Chunks`: the handler reads the slice through
\* the pointer, without the lock, and loops over what it read
DownloadFileRange(c) ==
    /\ ~panicked
    /\ rpc[c].pc = "range"
    /\ LET fileChunks == Pointee(c).Chunks
       IN  rpc' = [rpc EXCEPT ![c].fileChunks = fileChunks,
                              ![c].pc = IF fileChunks = <<>> THEN "return" ELSE "GetChunk"]
    /\ UNCHANGED <<files, chunks, chunkServers, now, panicked, avail>>

\* the loop body of DownloadFile: GetChunk and the placement
DownloadFileGetChunk(c) ==
    /\ ~panicked
    /\ rpc[c].pc = "GetChunk"
    /\ LET chunkHandle == rpc[c].fileChunks[rpc[c].i + 1]
       IN  rpc' = [rpc EXCEPT ![c] =
                     IF chunkHandle \notin DOMAIN chunks
                     THEN [@ EXCEPT !.pc = "return", !.err = "chunk not found",
                                    !.chunkLocations = <<>>]
                     ELSE [@ EXCEPT
                             !.chunkLocations =
                                 Append(@, Placement(chunkHandle,
                                                     chunks[chunkHandle].Locations,
                                                     chunks[chunkHandle].ChunkIndex)),
                             !.i = @ + 1,
                             !.pc = IF rpc[c].i + 1 < Len(rpc[c].fileChunks)
                                    THEN "GetChunk" ELSE "return"]]
    /\ UNCHANGED <<files, chunks, chunkServers, now, panicked, avail>>

\* a faulty ListFiles that leaves out the files that have no chunk
ListFilesWithChunks(c) ==
    /\ ~panicked
    /\ Free(c)
    /\ rpc' = [rpc EXCEPT ![c] =
                 [pc |-> "return", op |-> "ListFiles",
                  Files |-> {[Filename |-> files[f].Filename,
                              Filesize |-> files[f].Filesize,
                              NumChunks |-> files[f].ChunkCount] :
                                 f \in {g \in DOMAIN files : files[g].Chunks # <<>>}},
                  err |-> "nil"]]
    /\ UNCHANGED <<files, chunks, chunkServers, now, panicked, avail>>

\* Metadata.ListFiles and the FileInfo list built from it; the order of the
\* list is the map's iteration order, so the response is kept as a set.
ListFiles(c) ==
    /\ ~panicked
    /\ Free(c)
    /\ rpc' = [rpc EXCEPT ![c] =
                 [pc |-> "return", op |-> "ListFiles",
                  Files |-> {[Filename |-> files[f].Filename,
                              Filesize |-> files[f].Filesize,
                              NumChunks |-> files[f].ChunkCount] : f \in DOMAIN files},
                  err |-> "nil"]]
    /\ UNCHANGED <<files, chunks, chunkServers, now, panicked, avail>>

\* ReportChunk RPC of the master: always answers success
ReportChunk(address, chunkHandle) ==
    /\ ~panicked
    /\ AddChunkLocation(chunkHandle, address)
    /\ UNCHANGED <<files, chunkServers, now, panicked, rpc, avail>>

\* ------------------------------------------------------- SpecMaster
\* The master as an open system: two callers whose handlers interleave,
\* heartbeats and chunk reports arriving from a chunk server.  The clock
\* stands still here; SpecAvail and SpecRaw move it.

Callers == {"c1", "c2"}

MasterNodes == {"n1"}

MasterNames == {<<"a">>}

\* file sizes of one and two chunks
MasterSizes == {1, ChunkSize + 1}

MasterHandles ==
    {GenerateChunkHandle(n, i) : n \in MasterNames, i \in 0..1}

InitMaster ==
    /\ files = <<>>
    /\ chunks = <<>>
    /\ chunkServers = <<>>
    /\ now = 0
    /\ panicked = FALSE
    /\ rpc = [c \in Callers |-> Idle]
    /\ avail = NoQuery
    /\ calls = 0
    /\ NoSystem
    /\ lostReport = NoReport
    /\ reportedBefore = [c \in Callers |-> {}]
    /\ probe = NoProbe
    /\ held = <<>>
    /\ NoLocks

MasterUploadFile ==
    \E c \in Callers, n \in MasterNames, s \in MasterSizes :
        Send /\ UploadFileBegin(c, n, s) /\ UNCHANGED historyVars

\* the next step of the UploadFile handler serving caller c
UploadFileStep(c) ==
    UploadFileAddChunk(c) \/ UploadFileAddChunkToFile(c) \/ UploadFileGetServers(c)

MasterUploadStep == \E c \in Callers : UploadFileStep(c) /\ MasterOnly

\* the (address, handle) pairs that successful ReportChunk calls have on
\* record for the chunks of the file
ReportedLocations(filename) ==
    IF filename \notin DOMAIN files THEN {}
    ELSE UNION {{<<a, h>> : a \in Range(chunks[h].Locations)} :
                   h \in Range(files[filename].Chunks) \cap DOMAIN chunks}

MasterDownloadFile ==
    \E c \in Callers, n \in MasterNames :
        /\ Send
        /\ DownloadFileBegin(c, n)
        /\ reportedBefore' = [reportedBefore EXCEPT ![c] = ReportedLocations(n)]
        /\ UNCHANGED <<lostReport, probe, held, lockVars>>

MasterDownloadStep == \E c \in Callers : DownloadFileGetChunk(c) /\ MasterOnly

MasterHeartbeat == \E a \in MasterNodes : Heartbeat(a, {}) /\ MasterOnly

MasterReportChunk ==
    \E a \in MasterNodes, h \in MasterHandles : ReportChunk(a, h) /\ MasterOnly

NextMaster ==
    \/ MasterUploadFile
    \/ MasterUploadStep
    \/ MasterDownloadFile
    \/ MasterDownloadStep
    \/ MasterHeartbeat
    \/ MasterReportChunk

SpecMaster == InitMaster /\ [][NextMaster]_vars

\* ------------------------------------------------------- SpecRaw
\* One caller sending UploadFile requests with any name and size, the empty
\* name and negative sizes included, one after another; two chunk servers
\* that heartbeat or fall silent while the clock moves.

RawNodes == {"n1", "n2"}

RawNames == {<<>>, <<"a">>}

RawSizes == (0 - ChunkSize)..(ChunkSize + 1)

InitRaw ==
    /\ files = <<>>
    /\ chunks = <<>>
    /\ chunkServers = <<>>
    /\ now = 0
    /\ panicked = FALSE
    /\ rpc = [c \in {"c1"} |-> Idle]
    /\ avail = NoQuery
    /\ calls = 0
    /\ NoSystem
    /\ NoHistory

RawUploadFile ==
    \E n \in RawNames, s \in RawSizes :
        Send /\ UploadFileBegin("c1", n, s) /\ UNCHANGED historyVars

RawUploadStep == UploadFileStep("c1") /\ MasterOnly

RawListFiles == Send /\ ListFiles("c1") /\ UNCHANGED historyVars

RawHeartbeat == \E a \in RawNodes : Heartbeat(a, {}) /\ MasterOnly

RawTick == Tick(MaxTicks) /\ MasterOnly

NextRaw == RawUploadFile \/ RawUploadStep \/ RawListFiles \/ RawHeartbeat \/ RawTick

SpecRaw == InitRaw /\ [][NextRaw]_vars

\* ------------------------------------------------------- SpecCoord
\* Every RPC of the master, called by one caller one request after another
\* for two names, while a chunk server heartbeats and reports chunks, also
\* chunks the master has no record of.  The clock stands still.

CoordNodes == {"n1"}

CoordNames == {<<"a">>, <<"b">>}

\* file sizes of no chunk, one chunk and two chunks
CoordSizes == {0, 1, ChunkSize + 1}

CoordHandles ==
    {GenerateChunkHandle(n, i) : n \in CoordNames, i \in 0..1}

InitCoord == InitRaw

CoordUploadFile ==
    \E n \in CoordNames, s \in CoordSizes :
        Send /\ UploadFileBegin("c1", n, s) /\ UNCHANGED historyVars

CoordUploadStep == UploadFileStep("c1") /\ MasterOnly

CoordDownloadFile ==
    \E n \in CoordNames :
        Send /\ DownloadFileBegin("c1", n) /\ UNCHANGED historyVars

CoordDownloadStep == DownloadFileGetChunk("c1") /\ MasterOnly

CoordListFiles == Send /\ ListFiles("c1") /\ UNCHANGED historyVars

CoordHeartbeat == \E a \in CoordNodes : Heartbeat(a, {}) /\ MasterOnly

CoordReportChunk ==
    \E a \in CoordNodes, h \in CoordHandles : ReportChunk(a, h) /\ MasterOnly

NextCoord ==
    \/ CoordUploadFile
    \/ CoordUploadStep
    \/ CoordDownloadFile
    \/ CoordDownloadStep
    \/ CoordListFiles
    \/ CoordHeartbeat
    \/ CoordReportChunk

SpecCoord == InitCoord /\ [][NextCoord]_vars

\* ------------------------------------------------------- SpecBeat
\* The Heartbeat RPC called with any list of handles, also lists with a
\* handle twice and handles the master has no record of, for two chunk
\* servers while the clock moves, one caller uploads a file and chunk
\* reports arrive.  The inventory is the list of the request here.  probe is
\* the last Heartbeat request and the inventory of the sender it found.

BeatNodes == {"n1", "n2"}

BeatNames == {<<"a">>}

BeatHandles == {GenerateChunkHandle(n, i) : n \in BeatNames, i \in 0..1}

\* the lists of handles a heartbeat carries
BeatLists ==
    LET h0 == GenerateChunkHandle(<<"a">>, 0)
        h1 == GenerateChunkHandle(<<"a">>, 1)
    IN  {<<>>, <<h0>>, <<h1, h0>>, <<h0, h0>>}

InitBeat == InitRaw

BeatHeartbeat ==
    \E a \in BeatNodes, handles \in BeatLists :
        /\ Heartbeat(a, handles)
        /\ probe' = [op |-> "Heartbeat", address |-> a, handles |-> handles,
                     before |-> IF a \in DOMAIN chunkServers
                                THEN <<chunkServers[a].Chunks>> ELSE <<>>]
        /\ UNCHANGED <<calls, nodeVars, clientVars, lostReport, reportedBefore, held, lockVars>>

BeatTick == Tick(MaxTicks) /\ MasterOnly

BeatUploadFile ==
    \E n \in BeatNames : UploadFileBegin("c1", n, 1) /\ MasterOnly

BeatUploadStep == UploadFileStep("c1") /\ MasterOnly

BeatReportChunk ==
    \E h \in BeatHandles : ReportChunk("n1", h) /\ MasterOnly

NextBeat ==
    \/ BeatHeartbeat
    \/ BeatTick
    \/ BeatUploadFile
    \/ BeatUploadStep
    \/ BeatReportChunk

SpecBeat == InitBeat /\ [][NextBeat]_vars

\* ------------------------------------------------------- SpecMeta
\* The methods of Metadata that write file and chunk records called
\* directly, in any order and also for names and handles that have no
\* record, and the ReportChunk RPC.  probe is the last call, what the RPC
\* answered, and the calls so far that found no record.

MetaNodes == {"n1"}

MetaNames == {<<"a">>, <<"b">>}

MetaHandles == {GenerateChunkHandle(n, 0) : n \in MetaNames}

\* the response of ReportChunk
ReportChunkResponse == [Success |-> TRUE]

MetaCall(op, filename, chunkHandle, address, success, absent) ==
    [op |-> op, filename |-> filename, chunkHandle |-> chunkHandle,
     address |-> address, Success |-> success,
     absent |-> IF absent THEN probe.absent \cup {op} ELSE probe.absent]

MetaOnly ==
    UNCHANGED <<calls, nodeVars, clientVars, lostReport, reportedBefore, held, lockVars>>

InitMeta ==
    /\ files = <<>>
    /\ chunks = <<>>
    /\ chunkServers = <<>>
    /\ now = 0
    /\ panicked = FALSE
    /\ rpc = <<>>
    /\ avail = NoQuery
    /\ calls = 0
    /\ NoSystem
    /\ lostReport = NoReport
    /\ reportedBefore = <<>>
    /\ probe = [op |-> "none", filename |-> <<>>, chunkHandle |-> <<>>,
                address |-> "", Success |-> FALSE, absent |-> {}]
    /\ held = <<>>
    /\ NoLocks

MetaAddFile ==
    \E n \in MetaNames :
        /\ AddFile(n, 1, CalculateNumChunks(1))
        /\ probe' = MetaCall("AddFile", n, <<>>, "", FALSE, FALSE)
        /\ UNCHANGED <<chunks, chunkServers, now, panicked, rpc, avail>>
        /\ MetaOnly

MetaAddChunk ==
    \E n \in MetaNames :
        /\ AddChunk(GenerateChunkHandle(n, 0), n, 0)
        /\ probe' = MetaCall("AddChunk", n, GenerateChunkHandle(n, 0), "", FALSE, FALSE)
        /\ UNCHANGED <<files, chunkServers, now, panicked, rpc, avail>>
        /\ MetaOnly

MetaAddChunkToFile ==
    \E n \in MetaNames, h \in MetaHandles :
        /\ n \in DOMAIN files => Len(files[n].Chunks) < MaxAppends
        /\ AddChunkToFile(n, h)
        /\ probe' = MetaCall("AddChunkToFile", n, h, "", FALSE, n \notin DOMAIN files)
        /\ UNCHANGED <<chunks, chunkServers, now, panicked, rpc, avail>>
        /\ MetaOnly

MetaReportChunk ==
    \E a \in MetaNodes, h \in MetaHandles :
        /\ ReportChunk(a, h)
        /\ probe' = MetaCall("ReportChunk", <<>>, h, a, ReportChunkResponse.Success,
                             h \notin DOMAIN chunks)
        /\ MetaOnly

MetaHeartbeat == \E a \in MetaNodes : Heartbeat(a, {}) /\ MasterOnly

NextMeta ==
    \/ MetaAddFile
    \/ MetaAddChunk
    \/ MetaAddChunkToFile
    \/ MetaReportChunk
    \/ MetaHeartbeat

SpecMeta == InitMeta /\ [][NextMeta]_vars

\* ------------------------------------------- chunkserver/server.go: Storage
\* storage[a].chunks is the map Storage.chunks of the server at address a (the
\* handles mapped to true) and storage[a].disk the files of its directory,
\* handle -> bytes.

NoStorage == [chunks |-> {}, disk |-> <<>>]

\* a faulty Storage.WriteChunk that writes the file and forgets the map
StorageWriteChunkUnindexed(address, chunkHandle, data) ==
    storage' = [storage EXCEPT ![address].disk = (chunkHandle :> data) @@ @]

\* Storage.WriteChunk when os.WriteFile succeeds
StorageWriteChunk(address, chunkHandle, data) ==
    storage' = [storage EXCEPT ![address] =
                  [chunks |-> @.chunks \cup {chunkHandle},
                   disk |-> (chunkHandle :> data) @@ @.disk]]

\* a faulty Storage.WriteChunk that puts the handle into the map although
\* os.WriteFile failed
StorageWriteChunkFailsIndexed(address, chunkHandle, data, opened, written) ==
    storage' = [storage EXCEPT ![address] =
                  [chunks |-> @.chunks \cup {chunkHandle},
                   disk |-> IF opened
                            THEN (chunkHandle :> SubSeq(data, 1, written)) @@ @.disk
                            ELSE @.disk]]

\* Storage.WriteChunk when os.WriteFile fails: the file is as it was (it
\* could not be opened) or is truncated and holds only the first `written`
\* bytes, written < len(data); Storage.chunks is not touched.
StorageWriteChunkFails(address, chunkHandle, data, opened, written) ==
    storage' = IF opened
               THEN [storage EXCEPT ![address].disk =
                       (chunkHandle :> SubSeq(data, 1, written)) @@ @]
               ELSE storage

\* Storage.ReadChunk can return bytes: the handle is in Storage.chunks
StorageHasChunk(address, chunkHandle) ==
    /\ chunkHandle \in storage[address].chunks
    /\ chunkHandle \in DOMAIN storage[address].disk

StorageReadChunk(address, chunkHandle) == storage[address].disk[chunkHandle]

\* Storage.ListChunks; the order of the list is the map's, kept as a set
ListChunks(address) == storage[address].chunks

\* Storage.HasChunk
HasChunk(address, chunkHandle) == chunkHandle \in storage[address].chunks

\* Storage.ReadChunk: the bytes and the error it returns; `readable` says
\* whether os.ReadFile succeeds
StorageReadChunkResult(address, chunkHandle, readable) ==
    IF ~HasChunk(address, chunkHandle)
    THEN [data |-> <<>>, err |-> "chunk not found"]
    ELSE IF readable /\ chunkHandle \in DOMAIN storage[address].disk
    THEN [data |-> StorageReadChunk(address, chunkHandle), err |-> "nil"]
    ELSE [data |-> <<>>, err |-> "failed to read chunk"]

\* Storage.DeleteChunk when os.Remove succeeds: the file and the map entry go
StorageDeleteChunk(address, chunkHandle) ==
    /\ chunkHandle \in DOMAIN storage[address].disk
    /\ LET disk == storage[address].disk
       IN  storage' = [storage EXCEPT ![address] =
                         [chunks |-> @.chunks \ {chunkHandle},
                          disk |-> [h \in DOMAIN disk \ {chunkHandle} |-> disk[h]]]]

\* Storage.DeleteChunk when os.Remove fails (there is no such file, or it
\* cannot be removed): the error is returned and the map is not touched
StorageDeleteChunkFails(address, chunkHandle) == UNCHANGED storage

\* NewStorage at a restart of the chunk server: the map is made anew from
\* the files loadExistingChunks finds in the directory
LoadExistingChunks(address) ==
    storage' = [storage EXCEPT ![address].chunks = DOMAIN storage[address].disk]

\* ---------------------------------------- chunkserver/server.go: goroutines

\* reportChunkToMaster: the ReportChunk RPC reaches the master
ReportChunkToMaster(address, chunkHandle) ==
    /\ BagIn(<<address, chunkHandle>>, reports)
    /\ ReportChunk(address, chunkHandle)
    /\ reports' = reports (-) SetToBag({<<address, chunkHandle>>})
    /\ UNCHANGED <<calls, storage, clientVars>>

\* reportChunkToMaster: the connection or the RPC fails; it is logged and
\* the goroutine ends
ReportChunkToMasterFails(address, chunkHandle) ==
    /\ BagIn(<<address, chunkHandle>>, reports)
    /\ reports' = reports (-) SetToBag({<<address, chunkHandle>>})
    /\ UNCHANGED <<masterVars, calls, storage, clientVars>>

\* sendHeartbeat when the RPC succeeds: ListChunks and the Heartbeat RPC.
\* Nothing the master does reads the inventory, so the two are one step.  A
\* failed heartbeat is logged and changes nothing.
SendHeartbeat(address) ==
    /\ Heartbeat(address, ListChunks(address))
    /\ UNCHANGED <<calls, nodeVars, clientVars>>

\* ------------------------------------------------------- sync.RWMutex
\* mu[l] is the lock l: "metadata" is Metadata.mu, and the address of a chunk
\* server is the mu of its Storage.  threads[t] is the goroutine t, which
\* serves one RPC or runs one method at a time: `at` is the statement it is
\* about to run.  A goroutine that waits for a lock is at "Lock".

Unlocked == [w |-> "", r |-> {}]

\* the locks goroutine t holds
Holds(t) == {l \in DOMAIN mu : mu[l].w = t \/ t \in mu[l].r}

\* a faulty RWMutex whose Lock does not wait for the readers and the writer
CanLockAnyway(l, exclusive) == exclusive \/ mu[l].w = ""

\* Lock returns when there is no writer and no reader, RLock when there is
\* no writer
CanLock(l, exclusive) == mu[l].w = "" /\ (exclusive => mu[l].r = {})

Acquire(l, t, exclusive) ==
    mu' = [mu EXCEPT ![l] = IF exclusive THEN [@ EXCEPT !.w = t]
                                         ELSE [@ EXCEPT !.r = @ \cup {t}]]

\* a faulty method that returns without Unlock
ReleaseForgotten(l, t) == UNCHANGED mu

\* Unlock and RUnlock, by defer when the method returns
Release(l, t) ==
    mu' = [mu EXCEPT ![l] = [w |-> IF @.w = t THEN "" ELSE @.w, r |-> @.r \ {t}]]

\* ------------------------------------- master: the handlers and the lock
\* A handler goroutine of the master takes the request (at "idle"), calls
\* the methods of Metadata one after another, each of which locks, runs its
\* body and unlocks, and sends the response (at "respond").

Request(op, filename, filesize, address, chunkHandle, handles) ==
    [op |-> op, filename |-> filename, filesize |-> filesize,
     address |-> address, chunkHandle |-> chunkHandle, handles |-> handles]

MasterThread(at, req, begun) ==
    [side |-> "master", at |-> at, req |-> req, begun |-> begun]

NoRequest == Request("none", <<>>, 0, "", <<>>, {})

\* the method of Metadata the handler calls next
MetadataMethod(t) ==
    LET th == threads[t]
    IN  IF th.req.op = "UploadFile"
        THEN IF ~th.begun THEN "AddFile"
             ELSE IF rpc[t].pc = "GetServers" THEN "GetAvailableChunkServers"
             ELSE rpc[t].pc
        ELSE IF th.req.op = "DownloadFile"
        THEN IF ~th.begun THEN "GetFile" ELSE "GetChunk"
        ELSE IF th.req.op = "ListFiles" THEN "ListFiles"
        ELSE IF th.req.op = "Heartbeat" THEN "RegisterChunkServer"
        ELSE "AddChunkLocation"

\* the methods that take the read lock (mu.RLock)
ReadMethods == {"GetFile", "GetChunk", "ListFiles", "GetAvailableChunkServers"}

\* the handler has made its last method call
HandlerDone(t) ==
    \/ threads[t].req.op \in {"ListFiles", "Heartbeat", "ReportChunk"}
    \/ rpc[t].pc \in {"return", "panic"}

\* gRPC hands a request to a handler goroutine; `sender` is the goroutine of
\* a chunk server whose RPC this is, or "" for a request of a client or a
\* report goroutine
MetadataDispatch(t, req, sender) ==
    /\ threads[t].at = "idle"
    /\ calls < MaxCalls
    /\ calls' = calls + 1
    /\ threads' = [u \in DOMAIN threads |->
                     IF u = t THEN MasterThread("Lock", req, FALSE)
                     ELSE IF u = sender THEN [threads[u] EXCEPT !.at = "idle"]
                     ELSE threads[u]]
    /\ UNCHANGED <<masterVars, mu>>

\* m.mu.Lock() or m.mu.RLock() at the head of the method
MetadataLock(t) ==
    /\ threads[t].at = "Lock"
    /\ CanLock("metadata", MetadataMethod(t) \notin ReadMethods)
    /\ Acquire("metadata", t, MetadataMethod(t) \notin ReadMethods)
    /\ threads' = [threads EXCEPT ![t].at = "locked"]
    /\ UNCHANGED masterVars

\* the body of the method, with what the handler does with its result
MetadataBody(t) ==
    /\ threads[t].at = "locked"
    /\ LET req == threads[t].req
           method == MetadataMethod(t)
       IN  \/ method = "AddFile" /\ UploadFileBegin(t, req.filename, req.filesize)
           \/ method = "AddChunk" /\ UploadFileAddChunk(t)
           \/ method = "AddChunkToFile" /\ UploadFileAddChunkToFile(t)
           \/ method = "GetAvailableChunkServers" /\ UploadFileGetServers(t)
           \/ method = "GetFile" /\ DownloadFileBegin(t, req.filename)
           \/ method = "GetChunk" /\ DownloadFileGetChunk(t)
           \/ method = "ListFiles" /\ ListFiles(t)
           \/ method = "RegisterChunkServer" /\ Heartbeat(req.address, req.handles)
           \/ method = "AddChunkLocation" /\ ReportChunk(req.address, req.chunkHandle)
    /\ threads' = [threads EXCEPT ![t].at = "Unlock", ![t].begun = TRUE]
    /\ UNCHANGED mu

\* the deferred m.mu.Unlock() or m.mu.RUnlock()
MetadataUnlock(t) ==
    /\ threads[t].at = "Unlock"
    /\ Release("metadata", t)
    /\ threads' = [threads EXCEPT ![t].at = IF HandlerDone(t) THEN "respond" ELSE "Lock"]
    /\ UNCHANGED masterVars

\* the handler returns and gRPC sends the response
MetadataRespond(t) ==
    /\ threads[t].at = "respond"
    /\ threads' = [threads EXCEPT ![t].at = "idle"]
    /\ UNCHANGED <<masterVars, mu>>

\* ----------------------------------- chunk server: Storage and its lock
\* A goroutine of a chunk server runs one method of Storage at a time, for
\* the handler of a WriteChunk or ReadChunk RPC or for sendHeartbeat.
\* os.WriteFile opens the file, which empties it, writes the bytes from its
\* beginning and closes it.

StorageThread(address, at, op, chunkHandle, data, err, out) ==
    [side |-> address, at |-> at, op |-> op, chunkHandle |-> chunkHandle,
     data |-> data, err |-> err, out |-> out]

\* the methods that take s.mu.Lock(); the others take s.mu.RLock()
WriteMethods == {"WriteChunk", "DeleteChunk"}

\* the statement after the Lock or RLock of the method
FirstStatement(op) ==
    IF op = "WriteChunk" THEN "os.WriteFile.open"
    ELSE IF op = "DeleteChunk" THEN "os.Remove"
    ELSE IF op = "ListChunks" THEN "range chunks"
    ELSE "chunks[h]"

\* the statements of a method between its Lock and its return
InMethod(t) == threads[t].at \notin {"idle", "Lock", "go reportChunkToMaster",
                                     "rpc Heartbeat", "respond"}

\* the file after `bytes` were written from its beginning
WriteAt(old, bytes) == bytes \o SubSeq(old, Len(bytes) + 1, Len(old))

FileOf(address, chunkHandle) ==
    IF chunkHandle \in DOMAIN storage[address].disk
    THEN storage[address].disk[chunkHandle] ELSE <<>>

\* the goroutine goes on to `at`, with an error if there is one
Goes(t, at, err) ==
    threads' = [threads EXCEPT ![t].at = at,
                               ![t].err = IF err = "nil" THEN @ ELSE err]

\* the method is called
StorageDispatch(t, op, chunkHandle, data) ==
    /\ threads[t].at = "idle"
    /\ calls < MaxCalls
    /\ calls' = calls + 1
    /\ threads' = [threads EXCEPT ![t] =
                     StorageThread(threads[t].side, "Lock", op, chunkHandle, data, "nil", <<>>)]
    /\ UNCHANGED <<storage, reports, mu>>

\* s.mu.Lock() or s.mu.RLock()
StorageLock(t) ==
    /\ threads[t].at = "Lock"
    /\ CanLock(threads[t].side, threads[t].op \in WriteMethods)
    /\ Acquire(threads[t].side, t, threads[t].op \in WriteMethods)
    /\ Goes(t, FirstStatement(threads[t].op), "nil")
    /\ UNCHANGED <<storage, reports>>

\* os.WriteFile opens the file with O_CREATE|O_TRUNC, or fails to
StorageOpen(t, ok) ==
    /\ threads[t].at = "os.WriteFile.open"
    /\ IF ok
       THEN /\ storage' = [storage EXCEPT ![threads[t].side].disk =
                              (threads[t].chunkHandle :> <<>>) @@ @]
            /\ Goes(t, "os.WriteFile.write", "nil")
       ELSE /\ UNCHANGED storage
            /\ Goes(t, "Unlock", "failed to write chunk to disk")
    /\ UNCHANGED <<reports, mu>>

\* os.WriteFile writes the bytes, all of them or the first `written`
StorageWrite(t, written) ==
    /\ threads[t].at = "os.WriteFile.write"
    /\ written \in 0..Len(threads[t].data)
    /\ LET a == threads[t].side
           h == threads[t].chunkHandle
       IN  storage' = [storage EXCEPT ![a].disk =
                          (h :> WriteAt(FileOf(a, h), SubSeq(threads[t].data, 1, written))) @@ @]
    /\ IF written = Len(threads[t].data)
       THEN Goes(t, "chunks[h] = true", "nil")
       ELSE Goes(t, "Unlock", "failed to write chunk to disk")
    /\ UNCHANGED <<reports, mu>>

\* s.chunks[chunkHandle] = true
StorageIndex(t) ==
    /\ threads[t].at = "chunks[h] = true"
    /\ storage' = [storage EXCEPT ![threads[t].side].chunks = @ \cup {threads[t].chunkHandle}]
    /\ Goes(t, "Unlock", "nil")
    /\ UNCHANGED <<reports, mu>>

\* s.chunks[chunkHandle] in ReadChunk and in HasChunk
StorageLookup(t) ==
    /\ threads[t].at = "chunks[h]"
    /\ LET has == HasChunk(threads[t].side, threads[t].chunkHandle)
       IN  threads' = [threads EXCEPT
                         ![t].out = IF threads[t].op = "HasChunk" THEN <<has>> ELSE @,
                         ![t].err = IF threads[t].op = "ReadChunk" /\ ~has
                                    THEN "chunk not found" ELSE @,
                         ![t].at = IF threads[t].op = "ReadChunk" /\ has
                                   THEN "os.ReadFile" ELSE "Unlock"]
    /\ UNCHANGED <<storage, reports, mu>>

\* os.ReadFile
StorageReadFile(t, readable) ==
    /\ threads[t].at = "os.ReadFile"
    /\ LET a == threads[t].side
           h == threads[t].chunkHandle
       IN  IF readable /\ h \in DOMAIN storage[a].disk
           THEN threads' = [threads EXCEPT ![t].out = storage[a].disk[h],
                                           ![t].at = "Unlock"]
           ELSE Goes(t, "Unlock", "failed to read chunk")
    /\ UNCHANGED <<storage, reports, mu>>

\* the loop of ListChunks over s.chunks
StorageList(t) ==
    /\ threads[t].at = "range chunks"
    /\ threads' = [threads EXCEPT ![t].out = ListChunks(threads[t].side),
                                  ![t].at = "Unlock"]
    /\ UNCHANGED <<storage, reports, mu>>

\* os.Remove
StorageRemove(t, ok) ==
    /\ threads[t].at = "os.Remove"
    /\ LET a == threads[t].side
           h == threads[t].chunkHandle
           disk == storage[a].disk
       IN  IF ok /\ h \in DOMAIN disk
           THEN /\ storage' = [storage EXCEPT ![a].disk =
                                  [g \in DOMAIN disk \ {h} |-> disk[g]]]
                /\ Goes(t, "delete(chunks, h)", "nil")
           ELSE /\ UNCHANGED storage
                /\ Goes(t, "Unlock", "failed to delete chunk")
    /\ UNCHANGED <<reports, mu>>

\* delete(s.chunks, chunkHandle)
StorageUnindex(t) ==
    /\ threads[t].at = "delete(chunks, h)"
    /\ storage' = [storage EXCEPT ![threads[t].side].chunks = @ \ {threads[t].chunkHandle}]
    /\ Goes(t, "Unlock", "nil")
    /\ UNCHANGED <<reports, mu>>

\* a method that returns without its deferred unlock
StorageUnlockKeeping(t) ==
    /\ threads[t].at = "Unlock"
    /\ UNCHANGED mu
    /\ Goes(t, IF threads[t].op = "WriteChunk" /\ threads[t].err = "nil"
               THEN "go reportChunkToMaster"
               ELSE IF threads[t].op = "ListChunks" THEN "rpc Heartbeat"
               ELSE "respond", "nil")
    /\ UNCHANGED <<storage, reports>>

\* the deferred s.mu.Unlock() or s.mu.RUnlock(); the method returns to
\* Server.WriteChunk, to sendHeartbeat or to another caller
StorageUnlock(t) ==
    /\ threads[t].at = "Unlock"
    /\ Release(threads[t].side, t)
    /\ Goes(t, IF threads[t].op = "WriteChunk" /\ threads[t].err = "nil"
               THEN "go reportChunkToMaster"
               ELSE IF threads[t].op = "ListChunks" THEN "rpc Heartbeat"
               ELSE "respond", "nil")
    /\ UNCHANGED <<storage, reports>>

\* Server.WriteChunk starts the report goroutine
StorageReport(t) ==
    /\ threads[t].at = "go reportChunkToMaster"
    /\ reports' = reports (+) SetToBag({<<threads[t].side, threads[t].chunkHandle>>})
    /\ Goes(t, "respond", "nil")
    /\ UNCHANGED <<storage, mu>>

\* the caller of the method returns: the RPC is answered, or the heartbeat
\* could not be sent
StorageRespond(t) ==
    /\ threads[t].at \in {"respond", "rpc Heartbeat"}
    /\ Goes(t, "idle", "nil")
    /\ UNCHANGED <<storage, reports, mu>>

\* -------------------------------------------------------- client/client.go
\* One client process runs its operations one after another.  client.pc says
\* where it is; between operations it is "idle" and the record holds the
\* outcome of the last one: err, and for a download whether the output file
\* was written and with which bytes.  client.tried is the history of the
\* ReadChunk calls of the download, client.acked the placements of the upload
\* with an acknowledged WriteChunk.

ClientName == "c1"

\* the bytes of the v-th upload, of length n: all different, none zero
Data(v, n) == [k \in 1..n |-> 10 * v + k]

Zeros(n) == [k \in 1..n |-> 0]

ClientOp(pc, op, name, data, err) ==
    [pc |-> pc, op |-> op, name |-> name, data |-> data, placements |-> <<>>,
     ci |-> 0, ai |-> 0, acked |-> {}, fileData |-> <<>>, tried |-> <<>>,
     written |-> FALSE, output |-> <<>>, err |-> err, errChunk |-> -1]

\* the bytes of chunk chunkIndex of fileData: fileData[start:end] of uploadChunk
\* a faulty slice that runs to the end of the file
ChunkDataToEnd(fileData, chunkIndex) ==
    Slice(fileData, chunkIndex * ChunkSize, Len(fileData))

ChunkData(fileData, chunkIndex) ==
    LET start == chunkIndex * ChunkSize
        end == Min(start + ChunkSize, Len(fileData))
    IN  Slice(fileData, start, end)

\* fileData[start:end] panics when start > end
SlicePanics(fileData, chunkIndex) ==
    chunkIndex * ChunkSize > Min(chunkIndex * ChunkSize + ChunkSize, Len(fileData))

RECURSIVE UploadChunkAt(_, _)
\* Client.UploadFile's loop arriving at placement ci (from 1): the position
\* of the next WriteChunk, or the end of the loop, or the slice's panic.  A
\* placement without addresses is passed over.
UploadChunkAt(cl, ci) ==
    IF ci > Len(cl.placements)
    THEN [cl EXCEPT !.pc = "idle", !.ci = ci, !.ai = 0, !.err = "nil"]
    ELSE IF SlicePanics(cl.data, cl.placements[ci].ChunkIndex)
    THEN [cl EXCEPT !.pc = "panic", !.ci = ci, !.ai = 0, !.err = "panic"]
    ELSE IF cl.placements[ci].ChunkServerAddresses = <<>>
    THEN UploadChunkAt(cl, ci + 1)
    ELSE [cl EXCEPT !.pc = "WriteChunk", !.ci = ci, !.ai = 1]

\* Client.DownloadFile's loop arriving at placement ci: the position of the
\* next ReadChunk, or the end of the loop, or downloadChunk's error for a
\* placement without addresses.
DownloadChunkAt(cl, ci) ==
    IF ci > Len(cl.placements)
    THEN [cl EXCEPT !.pc = "WriteFile", !.ci = ci, !.ai = 0]
    ELSE IF cl.placements[ci].ChunkServerAddresses = <<>>
    THEN [cl EXCEPT !.pc = "idle", !.ci = ci, !.ai = 0,
                    !.err = "failed to download chunk",
                    !.errChunk = cl.placements[ci].ChunkIndex]
    ELSE [cl EXCEPT !.pc = "ReadChunk", !.ci = ci, !.ai = 1]

\* a faulty copy that writes every chunk at the front of the buffer
CopyAtFront(fileData, start, chunkData) ==
    [k \in 1..Len(fileData) |->
        IF k <= Len(chunkData) THEN chunkData[k] ELSE fileData[k]]

\* copy(fileData[start:], chunkData)
CopyAt(fileData, start, chunkData) ==
    LET n == Min(Len(fileData) - start, Len(chunkData))
    IN  [k \in 1..Len(fileData) |->
            IF start < k /\ k <= start + n THEN chunkData[k - start] ELSE fileData[k]]

\* the record of the upload under way in the history
UploadDone(replicated) ==
    uploads' = [uploads EXCEPT ![Len(uploads)].done = TRUE,
                               ![Len(uploads)].replicated = replicated]

\* Client.UploadFile up to the UploadFile RPC, which the master takes
ClientUploadFile(remoteName, data) ==
    /\ client.pc = "idle"
    /\ UploadFileBegin(ClientName, remoteName, Len(data))
    /\ client' = ClientOp("UploadFile", "UploadFile", remoteName, data, "nil")
    /\ uploads' = Append(uploads, [name |-> remoteName, data |-> data,
                                   done |-> FALSE, replicated |-> FALSE])
    /\ UNCHANGED <<calls, nodeVars>>

\* Client.UploadFile returning early: the local file cannot be read, or the
\* master cannot be reached
ClientUploadFileFails(remoteName, data, err) ==
    /\ client.pc = "idle"
    /\ client' = ClientOp("idle", "UploadFile", remoteName, data, err)
    /\ UNCHANGED <<masterVars, calls, nodeVars, uploads>>

\* the UploadFile response arrives and the loop over the placements starts
ClientUploadFileResponse ==
    /\ client.pc = "UploadFile"
    /\ rpc[ClientName].pc = "return"
    /\ LET cl == UploadChunkAt([client EXCEPT !.placements = rpc[ClientName].chunkLocations], 1)
       IN  /\ client' = cl
           /\ IF cl.pc = "idle" THEN UploadDone(cl.placements = <<>>)
                                ELSE UNCHANGED uploads
    /\ UNCHANGED <<masterVars, calls, nodeVars>>

\* a faulty uploadChunk that gives the upload up at the first WriteChunk that fails
AfterWriteChunkStopping(acknowledged) ==
    LET cl == IF acknowledged THEN [client EXCEPT !.acked = @ \cup {client.ci}]
                              ELSE client
        next == IF ~acknowledged
                THEN [cl EXCEPT !.pc = "idle", !.err = "failed to upload chunk"]
                ELSE IF cl.ai < Len(cl.placements[cl.ci].ChunkServerAddresses)
                THEN [cl EXCEPT !.ai = @ + 1]
                ELSE UploadChunkAt(cl, cl.ci + 1)
    IN  /\ client' = next
        /\ IF next.pc = "idle"
           THEN UploadDone(next.acked = 1..Len(next.placements))
           ELSE UNCHANGED uploads

\* the client after writeChunkToServer returned for address ai of placement ci
AfterWriteChunk(acknowledged) ==
    LET cl == IF acknowledged THEN [client EXCEPT !.acked = @ \cup {client.ci}]
                              ELSE client
        next == IF cl.ai < Len(cl.placements[cl.ci].ChunkServerAddresses)
                THEN [cl EXCEPT !.ai = @ + 1]
                ELSE UploadChunkAt(cl, cl.ci + 1)
    IN  /\ client' = next
        /\ IF next.pc = "idle"
           THEN UploadDone(next.acked = 1..Len(next.placements))
           ELSE UNCHANGED uploads

\* a faulty Server.WriteChunk that calls reportChunkToMaster itself and
\* answers when the master has answered
ClientWriteChunkSynchronous(acknowledged) ==
    /\ client.pc = "WriteChunk"
    /\ LET loc == client.placements[client.ci]
           address == loc.ChunkServerAddresses[client.ai]
       IN  /\ address \in DOMAIN storage
           /\ StorageWriteChunk(address, loc.ChunkHandle,
                                ChunkData(client.data, loc.ChunkIndex))
           /\ ReportChunk(address, loc.ChunkHandle)
    /\ AfterWriteChunk(acknowledged)
    /\ UNCHANGED <<calls, reports>>

\* writeChunkToServer and Server.WriteChunk: the chunk server stores the
\* bytes and starts the report goroutine; the response reaches the client
\* (acknowledged) or is lost on the way back
ClientWriteChunk(acknowledged) ==
    /\ client.pc = "WriteChunk"
    /\ LET loc == client.placements[client.ci]
           address == loc.ChunkServerAddresses[client.ai]
       IN  /\ address \in DOMAIN storage
           /\ StorageWriteChunk(address, loc.ChunkHandle,
                                ChunkData(client.data, loc.ChunkIndex))
           /\ reports' = reports (+) SetToBag({<<address, loc.ChunkHandle>>})
    /\ AfterWriteChunk(acknowledged)
    /\ UNCHANGED <<masterVars, calls>>

\* a faulty Server.WriteChunk that starts the report also when
\* Storage.WriteChunk failed
ClientWriteChunkStorageFailsReporting(opened, written) ==
    /\ client.pc = "WriteChunk"
    /\ LET loc == client.placements[client.ci]
           address == loc.ChunkServerAddresses[client.ai]
           data == ChunkData(client.data, loc.ChunkIndex)
       IN  /\ address \in DOMAIN storage
           /\ IF opened THEN written < Len(data) ELSE written = 0
           /\ StorageWriteChunkFails(address, loc.ChunkHandle, data, opened, written)
           /\ reports' = reports (+) SetToBag({<<address, loc.ChunkHandle>>})
    /\ AfterWriteChunk(FALSE)
    /\ UNCHANGED <<masterVars, calls>>

\* writeChunkToServer and Server.WriteChunk: Storage.WriteChunk fails, the
\* server answers with the error and starts no report
ClientWriteChunkStorageFails(opened, written) ==
    /\ client.pc = "WriteChunk"
    /\ LET loc == client.placements[client.ci]
           address == loc.ChunkServerAddresses[client.ai]
           data == ChunkData(client.data, loc.ChunkIndex)
       IN  /\ address \in DOMAIN storage
           /\ IF opened THEN written < Len(data) ELSE written = 0
           /\ StorageWriteChunkFails(address, loc.ChunkHandle, data, opened, written)
    /\ AfterWriteChunk(FALSE)
    /\ UNCHANGED <<masterVars, calls, reports>>

\* writeChunkToServer: the chunk server cannot be reached
ClientWriteChunkUnreachable ==
    /\ client.pc = "WriteChunk"
    /\ AfterWriteChunk(FALSE)
    /\ UNCHANGED <<masterVars, calls, nodeVars>>

\* Client.DownloadFile up to the DownloadFile RPC, which the master takes
ClientDownloadFile(remoteName) ==
    /\ client.pc = "idle"
    /\ DownloadFileBegin(ClientName, remoteName)
    /\ client' = ClientOp("DownloadFile", "DownloadFile", remoteName, <<>>, "nil")
    /\ UNCHANGED <<calls, nodeVars, uploads>>

\* Client.DownloadFile returning early: the master cannot be reached
ClientDownloadFileFails(remoteName) ==
    /\ client.pc = "idle"
    /\ client' = ClientOp("idle", "DownloadFile", remoteName, <<>>,
                          "failed to request download")
    /\ UNCHANGED <<masterVars, calls, nodeVars, uploads>>

\* the DownloadFile response arrives: an error ends the download, otherwise
\* the buffer is made and the loop over the placements starts
ClientDownloadFileResponse ==
    /\ client.pc = "DownloadFile"
    /\ rpc[ClientName].pc = "return"
    /\ client' =
          IF rpc[ClientName].err # "nil"
          THEN [client EXCEPT !.pc = "idle", !.err = "failed to request download"]
          ELSE IF rpc[ClientName].Filesize < 0
          THEN [client EXCEPT !.pc = "panic", !.err = "panic"]
          ELSE DownloadChunkAt([client EXCEPT
                                  !.placements = rpc[ClientName].chunkLocations,
                                  !.fileData = Zeros(rpc[ClientName].Filesize)], 1)
    /\ UNCHANGED <<masterVars, calls, nodeVars, uploads>>

\* one pass of downloadChunk's loop, readChunkFromServer returning bytes:
\* they are copied into the buffer and the next placement is taken up
ClientReadChunk ==
    /\ client.pc = "ReadChunk"
    /\ LET loc == client.placements[client.ci]
           address == loc.ChunkServerAddresses[client.ai]
           start == loc.ChunkIndex * ChunkSize
       IN  /\ address \in DOMAIN storage
           /\ StorageHasChunk(address, loc.ChunkHandle)
           /\ LET chunkData == StorageReadChunk(address, loc.ChunkHandle)
                  cl == [client EXCEPT !.tried = Append(@, [ci |-> client.ci,
                                                            address |-> address,
                                                            ok |-> TRUE,
                                                            data |-> chunkData])]
              IN  client' =
                     IF start > Len(client.fileData)
                     THEN [cl EXCEPT !.pc = "panic", !.err = "panic"]
                     ELSE DownloadChunkAt([cl EXCEPT !.fileData = CopyAt(@, start, chunkData)],
                                          client.ci + 1)
    /\ UNCHANGED <<masterVars, calls, nodeVars, uploads>>

\* a faulty downloadChunk that gives up at the first address that fails
ClientReadChunkGivesUp ==
    /\ client.pc = "ReadChunk"
    /\ LET loc == client.placements[client.ci]
           address == loc.ChunkServerAddresses[client.ai]
       IN  client' = [client EXCEPT
                        !.tried = Append(@, [ci |-> client.ci, address |-> address,
                                             ok |-> FALSE, data |-> <<>>]),
                        !.pc = "idle", !.err = "failed to download chunk",
                        !.errChunk = loc.ChunkIndex]
    /\ UNCHANGED <<masterVars, calls, nodeVars, uploads>>

\* one pass of downloadChunk's loop, readChunkFromServer failing (the server
\* cannot be reached, does not have the chunk or cannot read it): the next
\* address is tried, and after the last one the download fails
ClientReadChunkFails ==
    /\ client.pc = "ReadChunk"
    /\ LET loc == client.placements[client.ci]
           address == loc.ChunkServerAddresses[client.ai]
           cl == [client EXCEPT !.tried = Append(@, [ci |-> client.ci,
                                                     address |-> address,
                                                     ok |-> FALSE, data |-> <<>>])]
       IN  client' =
              IF client.ai < Len(loc.ChunkServerAddresses)
              THEN [cl EXCEPT !.ai = @ + 1]
              ELSE [cl EXCEPT !.pc = "idle", !.err = "failed to download chunk",
                              !.errChunk = loc.ChunkIndex]
    /\ UNCHANGED <<masterVars, calls, nodeVars, uploads>>

\* os.WriteFile(localPath, fileData) at the end of Client.DownloadFile
ClientWriteFile ==
    /\ client.pc = "WriteFile"
    /\ client' = [client EXCEPT !.pc = "idle", !.written = TRUE,
                                !.output = client.fileData]
    /\ UNCHANGED <<masterVars, calls, nodeVars, uploads>>

\* os.WriteFile failing: no file, or a file with the first `written` bytes
ClientWriteFileFails(opened, written) ==
    /\ client.pc = "WriteFile"
    /\ IF opened THEN written < Len(client.fileData) ELSE written = 0
    /\ client' = [client EXCEPT !.pc = "idle", !.err = "failed to write file",
                                !.written = opened,
                                !.output = IF opened THEN SubSeq(client.fileData, 1, written)
                                                     ELSE <<>>]
    /\ UNCHANGED <<masterVars, calls, nodeVars, uploads>>

\* ------------------------------------------------------------- Spec
\* The whole system: the master, two chunk servers with their storage,
\* report goroutines and heartbeats, and one client that uploads a file and
\* downloads.  Every RPC to a chunk server and every report can fail.  The
\* clock stands still; SpecAvail and SpecRaw move it.

Nodes == {"n1", "n2"}

Names == {<<"a">>}

\* the lengths of the files the client uploads: no chunk, one full chunk,
\* and a full chunk followed by a short one
DataLens == {0, ChunkSize, ChunkSize + 1}

InitSystem(nodes) ==
    /\ files = <<>>
    /\ chunks = <<>>
    /\ chunkServers = <<>>
    /\ now = 0
    /\ panicked = FALSE
    /\ rpc = [c \in {ClientName} |-> Idle]
    /\ avail = NoQuery
    /\ calls = 0
    /\ storage = [a \in nodes |-> NoStorage]
    /\ reports = EmptyBag
    /\ client = ClientOp("idle", "none", <<>>, <<>>, "nil")
    /\ uploads = <<>>
    /\ NoHistory

Init == InitSystem(Nodes)

\* the client uploads one file
Upload ==
    \E name \in Names, n \in DataLens :
        /\ uploads = <<>>
        /\ ClientUploadFile(name, Data(1, n)) /\ UNCHANGED historyVars

UploadFails ==
    \E name \in Names, n \in DataLens,
       err \in {"failed to read file", "failed to request file upload"} :
        ClientUploadFileFails(name, Data(1, n), err) /\ UNCHANGED historyVars

UploadHandler == UploadFileStep(ClientName) /\ MasterOnly

UploadResponse == ClientUploadFileResponse /\ UNCHANGED historyVars

WriteChunk == \E acknowledged \in BOOLEAN : ClientWriteChunk(acknowledged) /\ UNCHANGED historyVars

WriteChunkFails ==
    \/ \E opened \in BOOLEAN, written \in 0..ChunkSize :
          ClientWriteChunkStorageFails(opened, written) /\ UNCHANGED historyVars
    \/ ClientWriteChunkUnreachable /\ UNCHANGED historyVars

Download == \E name \in Names : ClientDownloadFile(name) /\ UNCHANGED historyVars

DownloadFails == \E name \in Names : ClientDownloadFileFails(name) /\ UNCHANGED historyVars

DownloadHandler == DownloadFileGetChunk(ClientName) /\ MasterOnly

DownloadResponse == ClientDownloadFileResponse /\ UNCHANGED historyVars

ReadChunk == ClientReadChunk /\ UNCHANGED historyVars

ReadChunkFails == ClientReadChunkFails /\ UNCHANGED historyVars

WriteFile == ClientWriteFile /\ UNCHANGED historyVars

WriteFileFails ==
    \E opened \in BOOLEAN, written \in 0..ChunkSize :
        ClientWriteFileFails(opened, written) /\ UNCHANGED historyVars

Report == \E p \in BagToSet(reports) : ReportChunkToMaster(p[1], p[2]) /\ UNCHANGED historyVars

ReportFails == \E p \in BagToSet(reports) : ReportChunkToMasterFails(p[1], p[2]) /\ UNCHANGED historyVars

NodeHeartbeat == \E a \in Nodes : SendHeartbeat(a) /\ UNCHANGED historyVars

Next ==
    \/ Upload
    \/ UploadFails
    \/ UploadHandler
    \/ UploadResponse
    \/ WriteChunk
    \/ WriteChunkFails
    \/ Download
    \/ DownloadFails
    \/ DownloadHandler
    \/ DownloadResponse
    \/ ReadChunk
    \/ ReadChunkFails
    \/ WriteFile
    \/ WriteFileFails
    \/ Report
    \/ ReportFails
    \/ NodeHeartbeat

Spec == Init /\ [][Next]_vars

\* ------------------------------------------------------- SpecRepair
\* The system with one chunk server and a file of one chunk that is uploaded
\* twice, with the history of the last failed report: lostReport is the report that
\* reportChunkToMaster logged as failed last, and lostReport.heartbeat says
\* that the master has accepted a heartbeat of that server since, whose
\* inventory held the handle.

RepairNodes == {"n1"}

InitRepair == InitSystem(RepairNodes)

\* the client uploads the file and uploads it again with other bytes
RepairUpload ==
    \E name \in Names :
        /\ Len(uploads) < 2
        /\ ClientUploadFile(name, Data(Len(uploads) + 1, ChunkSize)) /\ UNCHANGED historyVars

RepairUploadHandler == UploadFileStep(ClientName) /\ MasterOnly

RepairUploadResponse == ClientUploadFileResponse /\ UNCHANGED historyVars

RepairWriteChunk == \E acknowledged \in BOOLEAN : ClientWriteChunk(acknowledged) /\ UNCHANGED historyVars

RepairWriteChunkFails ==
    \/ \E opened \in BOOLEAN, written \in 0..ChunkSize :
          ClientWriteChunkStorageFails(opened, written) /\ UNCHANGED historyVars
    \/ ClientWriteChunkUnreachable /\ UNCHANGED historyVars

RepairReport == \E p \in BagToSet(reports) : ReportChunkToMaster(p[1], p[2]) /\ UNCHANGED historyVars

RepairReportFails ==
    \E p \in BagToSet(reports) :
        /\ ReportChunkToMasterFails(p[1], p[2])
        /\ lostReport' = [address |-> p[1], chunkHandle |-> p[2], heartbeat |-> FALSE]
        /\ UNCHANGED <<reportedBefore, probe, held, lockVars>>

RepairHeartbeat ==
    \E a \in RepairNodes :
        /\ SendHeartbeat(a)
        /\ lostReport' = IF /\ lostReport.address = a
                            /\ lostReport.chunkHandle \in ListChunks(a)
                         THEN [lostReport EXCEPT !.heartbeat = TRUE]
                         ELSE lostReport
        /\ UNCHANGED <<reportedBefore, probe, held, lockVars>>

RepairDownload == \E name \in Names : ClientDownloadFile(name) /\ UNCHANGED historyVars

RepairDownloadHandler == DownloadFileGetChunk(ClientName) /\ MasterOnly

RepairDownloadResponse == ClientDownloadFileResponse /\ UNCHANGED historyVars

RepairReadChunk == ClientReadChunk /\ UNCHANGED historyVars

RepairReadChunkFails == ClientReadChunkFails /\ UNCHANGED historyVars

RepairWriteFile == ClientWriteFile /\ UNCHANGED historyVars

NextRepair ==
    \/ RepairUpload
    \/ RepairUploadHandler
    \/ RepairUploadResponse
    \/ RepairWriteChunk
    \/ RepairWriteChunkFails
    \/ RepairReport
    \/ RepairReportFails
    \/ RepairHeartbeat
    \/ RepairDownload
    \/ RepairDownloadHandler
    \/ RepairDownloadResponse
    \/ RepairReadChunk
    \/ RepairReadChunkFails
    \/ RepairWriteFile

SpecRepair == InitRepair /\ [][NextRepair]_vars

\* ------------------------------------------------------- SpecZero
\* The system of SpecRepair with a client that uploads a name twice, a file
\* of one chunk or an empty file each time, and downloads it; the chunk
\* server may never have sent a heartbeat.

ZeroLens == {0, ChunkSize}

InitZero == InitSystem(RepairNodes)

ZeroUpload ==
    \E name \in Names, n \in ZeroLens :
        /\ Len(uploads) < 2
        /\ ClientUploadFile(name, Data(Len(uploads) + 1, n)) /\ UNCHANGED historyVars

ZeroDownloadFails ==
    \E name \in Names : ClientDownloadFileFails(name) /\ UNCHANGED historyVars

ZeroWriteFileFails ==
    \E opened \in BOOLEAN, written \in 0..ChunkSize :
        ClientWriteFileFails(opened, written) /\ UNCHANGED historyVars

NextZero ==
    \/ ZeroUpload
    \/ RepairUploadHandler
    \/ RepairUploadResponse
    \/ RepairWriteChunk
    \/ RepairWriteChunkFails
    \/ RepairReport
    \/ RepairReportFails
    \/ RepairHeartbeat
    \/ RepairDownload
    \/ ZeroDownloadFails
    \/ RepairDownloadHandler
    \/ RepairDownloadResponse
    \/ RepairReadChunk
    \/ RepairReadChunkFails
    \/ RepairWriteFile
    \/ ZeroWriteFileFails

SpecZero == InitZero /\ [][NextZero]_vars

\* ------------------------------------------------------- SpecReplica
\* The system of Spec with a client that uploads one file, so that no name is
\* uploaded twice, and chunk servers that can be stopped and started again:
\* NewStorage makes Storage.chunks anew from the files of the directory, and
\* the report goroutines of the process that was stopped are gone.

\* the chunk server at `address` is started again
RestartChunkServer(address) ==
    /\ LoadExistingChunks(address)
    /\ reports' = [p \in {q \in DOMAIN reports : q[1] # address} |-> reports[p]]
    /\ UNCHANGED <<masterVars, calls, clientVars>>

ReplicaRestart == \E a \in Nodes : RestartChunkServer(a) /\ UNCHANGED historyVars

NextReplica ==
    \/ Upload
    \/ UploadHandler
    \/ UploadResponse
    \/ WriteChunk
    \/ WriteChunkFails
    \/ Report
    \/ ReportFails
    \/ NodeHeartbeat
    \/ ReplicaRestart

SpecReplica == Init /\ [][NextReplica]_vars

\* ------------------------------------------------------- SpecReupload
\* The system of Spec with a client that uploads a name, uploads it again
\* with other bytes, of one chunk or of two chunks each time, and downloads
\* it.  The second upload begins when the report goroutines of the first
\* have ended.

ReuploadLens == {1, ChunkSize + 1}

ReuploadUpload ==
    \E name \in Names, n \in ReuploadLens :
        /\ Len(uploads) < 2
        /\ reports = EmptyBag
        /\ ClientUploadFile(name, Data(Len(uploads) + 1, n)) /\ UNCHANGED historyVars

\* the first heartbeat of a chunk server, which registers it
ReuploadHeartbeat ==
    \E a \in Nodes :
        /\ a \notin DOMAIN chunkServers
        /\ SendHeartbeat(a) /\ UNCHANGED historyVars

\* the client downloads the name after it has uploaded it twice
ReuploadDownload ==
    \E name \in Names :
        /\ Len(uploads) = 2
        /\ ClientDownloadFile(name) /\ UNCHANGED historyVars

NextReupload ==
    \/ ReuploadUpload
    \/ UploadHandler
    \/ UploadResponse
    \/ WriteChunk
    \/ WriteChunkFails
    \/ ReuploadDownload
    \/ DownloadHandler
    \/ DownloadResponse
    \/ ReadChunk
    \/ ReadChunkFails
    \/ WriteFile
    \/ Report
    \/ ReportFails
    \/ ReuploadHeartbeat

SpecReupload == Init /\ [][NextReupload]_vars

\* ------------------------------------------------------- SpecHealthy
\* A chunk server whose heartbeats all arrive, next to one that sends one
\* heartbeat and falls silent, and direct calls of GetAvailableChunkServers;
\* the clock moves in seconds.  threads[a] is the startHeartbeat goroutine of
\* the chunk server a: it waits for the tick of its ticker, which comes every
\* HeartbeatInterval from the start of the goroutine on, and then runs
\* sendHeartbeat, whose RPC the master serves before the deadline of the call.

HealthyNode == "n1"

SilentNode == "n2"

HeartbeatThread(at, started, next, deadline) ==
    [side |-> HealthyNode, at |-> at, started |-> started, next |-> next,
     deadline |-> deadline]

HealthyFrame ==
    UNCHANGED <<calls, nodeVars, clientVars, lostReport, reportedBefore, probe, held, mu>>

InitHealthy ==
    /\ files = <<>>
    /\ chunks = <<>>
    /\ chunkServers = <<>>
    /\ now = 0
    /\ panicked = FALSE
    /\ rpc = <<>>
    /\ avail = NoQuery
    /\ calls = 0
    /\ NoSystem
    /\ lostReport = NoReport
    /\ reportedBefore = <<>>
    /\ probe = NoProbe
    /\ held = <<>>
    /\ mu = <<>>
    /\ threads = [a \in {HealthyNode} |-> HeartbeatThread("stopped", 0, 0, 0)]

\* Server.Start: go s.startHeartbeat(), which makes the ticker
StartHeartbeat(a) ==
    /\ threads[a].at = "stopped"
    /\ threads' = [threads EXCEPT ![a] =
                     HeartbeatThread("range ticker.C", now, now + HeartbeatInterval, 0)]
    /\ UNCHANGED masterVars

\* the ticker fires and the loop calls sendHeartbeat, which sends the RPC
\* with its deadline
TickerFires(a) ==
    /\ threads[a].at = "range ticker.C"
    /\ now = threads[a].next
    /\ threads' = [threads EXCEPT ![a].at = "rpc Heartbeat",
                                  ![a].next = @ + HeartbeatInterval,
                                  ![a].deadline = now + HeartbeatTimeout]
    /\ UNCHANGED masterVars

\* the master serves the Heartbeat RPC and sendHeartbeat returns
HeartbeatDelivered(a) ==
    /\ threads[a].at = "rpc Heartbeat"
    /\ Heartbeat(a, {})
    /\ threads' = [threads EXCEPT ![a].at = "range ticker.C"]

\* a second passes: not past a tick that has not fired, nor past the
\* deadline of a heartbeat that has not been served
Second(maxTicks) ==
    /\ now < maxTicks * HeartbeatInterval
    /\ \A a \in DOMAIN threads :
          /\ threads[a].at = "range ticker.C" => now < threads[a].next
          /\ threads[a].at = "rpc Heartbeat" => now < threads[a].deadline
    /\ now' = now + 1
    /\ UNCHANGED <<files, chunks, chunkServers, panicked, rpc, avail, threads>>

\* the chunk server starts within the first HeartbeatInterval of the clock
HealthyStart ==
    /\ now <= HeartbeatInterval
    /\ StartHeartbeat(HealthyNode) /\ HealthyFrame

HealthyTick == TickerFires(HealthyNode) /\ HealthyFrame

HealthyHeartbeat == HeartbeatDelivered(HealthyNode) /\ HealthyFrame

\* long enough for a heartbeat that is not renewed to get LivenessWindow old
HealthySecond == Second(MaxTicks + 2) /\ HealthyFrame

\* the other chunk server sends one heartbeat and falls silent
SilentHeartbeat ==
    /\ SilentNode \notin DOMAIN chunkServers
    /\ Heartbeat(SilentNode, {}) /\ MasterOnly

HealthyQuery == QueryAvailable(2) /\ MasterOnly

NextHealthy ==
    \/ HealthyStart
    \/ HealthyTick
    \/ HealthyHeartbeat
    \/ HealthySecond
    \/ SilentHeartbeat
    \/ HealthyQuery

SpecHealthy == InitHealthy /\ [][NextHealthy]_vars

\* ------------------------------------------------------- SpecSettle
\* The system with as many chunk servers as ReplicationFactor and a file of
\* one chunk that is uploaded and uploaded again, while the master can be
\* reached: every report goroutine that was started gets its ReportChunk
\* through, sooner or later.  A WriteChunk succeeds, with or without its
\* answer reaching the client, or the chunk server is not reached.

SettleNodes == {"n1", "n2", "n3"}

SettleHandles == {GenerateChunkHandle(n, 0) : n \in Names}

InitSettle == InitSystem(SettleNodes)

\* the first heartbeat of a chunk server, which registers it; the clock
\* stands still here, so that a registered chunk server stays available
SettleHeartbeat ==
    \E a \in SettleNodes :
        /\ a \notin DOMAIN chunkServers
        /\ SendHeartbeat(a) /\ UNCHANGED historyVars

SettleUpload ==
    \E name \in Names :
        /\ Len(uploads) < 2
        /\ ClientUploadFile(name, Data(Len(uploads) + 1, ChunkSize)) /\ UNCHANGED historyVars

SettleUploadHandler == UploadFileStep(ClientName) /\ MasterOnly

SettleUploadResponse == ClientUploadFileResponse /\ UNCHANGED historyVars

SettleWriteChunk ==
    \E acknowledged \in BOOLEAN : ClientWriteChunk(acknowledged) /\ UNCHANGED historyVars

SettleWriteChunkFails == ClientWriteChunkUnreachable /\ UNCHANGED historyVars

\* the report goroutine of (address, chunkHandle) reaches the master
SettleReportOf(address, chunkHandle) ==
    ReportChunkToMaster(address, chunkHandle) /\ UNCHANGED historyVars

SettleReport == \E a \in SettleNodes, h \in SettleHandles : SettleReportOf(a, h)

NextSettle ==
    \/ SettleHeartbeat
    \/ SettleUpload
    \/ SettleUploadHandler
    \/ SettleUploadResponse
    \/ SettleWriteChunk
    \/ SettleWriteChunkFails
    \/ SettleReport

\* A goroutine that was started runs, and the master answers a ReportChunk
\* that reaches it.
SpecSettle ==
    /\ InitSettle
    /\ [][NextSettle]_vars
    /\ \A a \in SettleNodes, h \in SettleHandles : WF_vars(SettleReportOf(a, h))

\* ------------------------------------------------------- SpecSlice
\* The slicing of uploadChunk applied to the placements of a file one after
\* another, as the loop of Client.UploadFile does, for every file of bits of
\* up to two chunks and a byte.  probe is the file, the number of chunks the
\* master counted for its size, the index of the next placement, the last
\* slice and the slices so far put together.

RECURSIVE Bits(_)
\* the byte sequences of length n over two byte values
Bits(n) ==
    IF n = 0 THEN {<<>>}
    ELSE {Append(b, v) : b \in Bits(n - 1), v \in {0, 1}}

SliceData == UNION {Bits(n) : n \in 0..(2 * ChunkSize + 1)}

SliceOnly ==
    UNCHANGED <<masterVars, calls, nodeVars, clientVars, lostReport, reportedBefore, held, lockVars>>

InitSlice ==
    /\ files = <<>>
    /\ chunks = <<>>
    /\ chunkServers = <<>>
    /\ now = 0
    /\ panicked = FALSE
    /\ rpc = <<>>
    /\ avail = NoQuery
    /\ calls = 0
    /\ NoSystem
    /\ lostReport = NoReport
    /\ reportedBefore = <<>>
    /\ probe = [op |-> "none", fileData |-> <<>>, numChunks |-> 0, i |-> 0,
                chunkData |-> <<>>, joined |-> <<>>]
    /\ held = <<>>
    /\ NoLocks

\* Client.UploadFile has read the file and has the placements of its size
SliceUploadFile ==
    \E data \in SliceData :
        /\ probe' = [op |-> "UploadFile", fileData |-> data,
                     numChunks |-> CalculateNumChunks(Len(data)), i |-> 0,
                     chunkData |-> <<>>, joined |-> <<>>]
        /\ SliceOnly

\* uploadChunk for the placement of the next index
SliceUploadChunk ==
    /\ probe.op \in {"UploadFile", "uploadChunk"}
    /\ probe.i < probe.numChunks
    /\ ~SlicePanics(probe.fileData, probe.i)
    /\ LET chunkData == ChunkData(probe.fileData, probe.i)
       IN  probe' = [probe EXCEPT !.op = "uploadChunk", !.i = @ + 1,
                                  !.chunkData = chunkData,
                                  !.joined = @ \o chunkData]
    /\ SliceOnly

NextSlice == SliceUploadFile \/ SliceUploadChunk

SpecSlice == InitSlice /\ [][NextSlice]_vars

\* ------------------------------------------------------- SpecMetaLock
\* The master with its lock: two handler goroutines serve the five RPCs, as
\* the requests come in, MaxCalls of them in all, and take Metadata.mu for
\* every method call.  A goroutine that can run does run, sooner or later.

MetaLockNames == {<<"a">>}

\* a file of one chunk: the handler calls each method of an upload once
MetaLockSizes == {1}

MetaLockNodes == {"n1"}

MetaLockOnly ==
    UNCHANGED <<nodeVars, clientVars, lostReport, reportedBefore, probe, held>>

InitMetaLock ==
    /\ files = <<>>
    /\ chunks = <<>>
    /\ chunkServers = <<>>
    /\ now = 0
    /\ panicked = FALSE
    /\ rpc = [c \in Callers |-> Idle]
    /\ avail = NoQuery
    /\ calls = 0
    /\ NoSystem
    /\ lostReport = NoReport
    /\ reportedBefore = <<>>
    /\ probe = NoProbe
    /\ held = <<>>
    /\ mu = [l \in {"metadata"} |-> Unlocked]
    /\ threads = [c \in Callers |-> MasterThread("idle", NoRequest, FALSE)]

MetaLockUploadFile ==
    \E t \in Callers, n \in MetaLockNames, s \in MetaLockSizes :
        MetadataDispatch(t, Request("UploadFile", n, s, "", <<>>, {}), "") /\ MetaLockOnly

MetaLockDownloadFile ==
    \E t \in Callers, n \in MetaLockNames :
        MetadataDispatch(t, Request("DownloadFile", n, 0, "", <<>>, {}), "") /\ MetaLockOnly

MetaLockListFiles ==
    \E t \in Callers :
        MetadataDispatch(t, Request("ListFiles", <<>>, 0, "", <<>>, {}), "") /\ MetaLockOnly

MetaLockHeartbeat ==
    \E t \in Callers, a \in MetaLockNodes :
        MetadataDispatch(t, Request("Heartbeat", <<>>, 0, a, <<>>, {}), "") /\ MetaLockOnly

MetaLockReportChunk ==
    \E t \in Callers, a \in MetaLockNodes, n \in MetaLockNames :
        MetadataDispatch(t, Request("ReportChunk", <<>>, 0, a, GenerateChunkHandle(n, 0), {}), "")
            /\ MetaLockOnly

\* the next statement of handler goroutine t
MetaLockStep(t) ==
    /\ \/ MetadataLock(t)
       \/ MetadataBody(t)
       \/ MetadataUnlock(t)
       \/ MetadataRespond(t)
    /\ UNCHANGED calls
    /\ MetaLockOnly

MetaLockRun == \E t \in Callers : MetaLockStep(t)

NextMetaLock ==
    \/ MetaLockUploadFile
    \/ MetaLockDownloadFile
    \/ MetaLockListFiles
    \/ MetaLockHeartbeat
    \/ MetaLockReportChunk
    \/ MetaLockRun

\* The Go scheduler runs every goroutine that can run, and a goroutine that
\* waits for the lock gets it once the finitely many calls that can be made
\* before it have returned.
SpecMetaLock ==
    /\ InitMetaLock
    /\ [][NextMetaLock]_vars
    /\ \A t \in Callers : WF_vars(MetaLockStep(t))

\* ------------------------------------------------------- SpecStore
\* The Storage of one chunk server called directly: writes that succeed or
\* fail part-way, reads, deletions and restarts for two handles.  probe is
\* the last call with its result; probe.stored is the history the round trip
\* is about: per handle the bytes of the last WriteChunk that succeeded, as
\* long as no WriteChunk or DeleteChunk of the handle was called since.

StoreNode == "n1"

StoreHandles == {GenerateChunkHandle(<<"a">>, i) : i \in 0..1}

\* the byte sequences written: two contents of every length up to a chunk
StoreData == {Data(v, n) : v \in 1..2, n \in 0..ChunkSize}

NoBytes == [valid |-> FALSE, data |-> <<>>]

StoreCall(op, chunkHandle, data, err, has, list, stored) ==
    [op |-> op, chunkHandle |-> chunkHandle, data |-> data, err |-> err,
     has |-> has, list |-> list, stored |-> stored]

\* the history after a call that leaves `bytes` to be read under the handle
Stored(chunkHandle, bytes) == [probe.stored EXCEPT ![chunkHandle] = bytes]

StoreOnly == UNCHANGED <<masterVars, calls, reports, clientVars, lostReport, reportedBefore, held, lockVars>>

InitStore ==
    /\ files = <<>>
    /\ chunks = <<>>
    /\ chunkServers = <<>>
    /\ now = 0
    /\ panicked = FALSE
    /\ rpc = <<>>
    /\ avail = NoQuery
    /\ calls = 0
    /\ storage = [a \in {StoreNode} |-> NoStorage]
    /\ reports = EmptyBag
    /\ client = Idle
    /\ uploads = <<>>
    /\ lostReport = NoReport
    /\ reportedBefore = <<>>
    /\ probe = StoreCall("none", <<>>, <<>>, "nil", FALSE, {},
                         [h \in StoreHandles |-> NoBytes])
    /\ held = <<>>
    /\ NoLocks

StoreWriteChunk ==
    \E h \in StoreHandles, data \in StoreData :
        /\ StorageWriteChunk(StoreNode, h, data)
        /\ probe' = StoreCall("WriteChunk", h, data, "nil", FALSE, {},
                              Stored(h, [valid |-> TRUE, data |-> data]))
        /\ StoreOnly

StoreWriteChunkFails ==
    \E h \in StoreHandles, data \in StoreData, opened \in BOOLEAN, written \in 0..ChunkSize :
        /\ IF opened THEN written < Len(data) ELSE written = 0
        /\ StorageWriteChunkFails(StoreNode, h, data, opened, written)
        /\ probe' = StoreCall("WriteChunk", h, data, "failed to write chunk to disk",
                              FALSE, {}, Stored(h, NoBytes))
        /\ StoreOnly

StoreReadChunk ==
    \E h \in StoreHandles, readable \in BOOLEAN :
        /\ LET r == StorageReadChunkResult(StoreNode, h, readable)
           IN  probe' = StoreCall("ReadChunk", h, r.data, r.err, FALSE, {}, probe.stored)
        /\ UNCHANGED storage
        /\ StoreOnly

StoreHasChunk ==
    \E h \in StoreHandles :
        /\ probe' = StoreCall("HasChunk", h, <<>>, "nil", HasChunk(StoreNode, h), {},
                              probe.stored)
        /\ UNCHANGED storage
        /\ StoreOnly

StoreListChunks ==
    /\ probe' = StoreCall("ListChunks", <<>>, <<>>, "nil", FALSE, ListChunks(StoreNode),
                          probe.stored)
    /\ UNCHANGED storage
    /\ StoreOnly

StoreDeleteChunk ==
    \E h \in StoreHandles :
        /\ StorageDeleteChunk(StoreNode, h)
        /\ probe' = StoreCall("DeleteChunk", h, <<>>, "nil", FALSE, {}, Stored(h, NoBytes))
        /\ StoreOnly

StoreDeleteChunkFails ==
    \E h \in StoreHandles :
        /\ StorageDeleteChunkFails(StoreNode, h)
        /\ probe' = StoreCall("DeleteChunk", h, <<>>, "failed to delete chunk", FALSE, {},
                              Stored(h, NoBytes))
        /\ StoreOnly

\* the chunk server is stopped and started again over the same directory
StoreRestart ==
    /\ LoadExistingChunks(StoreNode)
    /\ probe' = StoreCall("NewStorage", <<>>, <<>>, "nil", FALSE, {}, probe.stored)
    /\ StoreOnly

NextStore ==
    \/ StoreWriteChunk
    \/ StoreWriteChunkFails
    \/ StoreReadChunk
    \/ StoreHasChunk
    \/ StoreListChunks
    \/ StoreDeleteChunk
    \/ StoreDeleteChunkFails
    \/ StoreRestart

SpecStore == InitStore /\ [][NextStore]_vars

\* ------------------------------------------------------- SpecStoreLock
\* The Storage of one chunk server with its lock: three goroutines call
\* WriteChunk with two contents of different length, ReadChunk, HasChunk,
\* ListChunks and DeleteChunk for one handle, MaxCalls calls in all, in any
\* interleaving of their statements that the lock allows.

StoreLockThreads == {"s1", "s2", "s3"}

StoreLockHandles == {GenerateChunkHandle(<<"a">>, 0)}

StoreLockData == {Data(1, ChunkSize), Data(2, 1)}

StoreLockOnly ==
    UNCHANGED <<masterVars, clientVars, lostReport, reportedBefore, probe, held>>

InitStoreLock ==
    /\ files = <<>>
    /\ chunks = <<>>
    /\ chunkServers = <<>>
    /\ now = 0
    /\ panicked = FALSE
    /\ rpc = <<>>
    /\ avail = NoQuery
    /\ calls = 0
    /\ storage = [a \in {StoreNode} |-> NoStorage]
    /\ reports = EmptyBag
    /\ client = Idle
    /\ uploads = <<>>
    /\ lostReport = NoReport
    /\ reportedBefore = <<>>
    /\ probe = NoProbe
    /\ held = <<>>
    /\ mu = [l \in {StoreNode} |-> Unlocked]
    /\ threads = [t \in StoreLockThreads |->
                    StorageThread(StoreNode, "idle", "none", <<>>, <<>>, "nil", <<>>)]

StoreLockWriteChunk ==
    \E t \in StoreLockThreads, h \in StoreLockHandles, data \in StoreLockData :
        StorageDispatch(t, "WriteChunk", h, data) /\ StoreLockOnly

StoreLockCall ==
    \E t \in StoreLockThreads, h \in StoreLockHandles,
       op \in {"ReadChunk", "HasChunk", "ListChunks", "DeleteChunk"} :
        StorageDispatch(t, op, h, <<>>) /\ StoreLockOnly

\* the next statement of goroutine t
StorageStep(t) ==
    \/ StorageLock(t)
    \/ \E ok \in BOOLEAN : StorageOpen(t, ok)
    \/ \E written \in 0..ChunkSize : StorageWrite(t, written)
    \/ StorageIndex(t)
    \/ StorageLookup(t)
    \/ \E readable \in BOOLEAN : StorageReadFile(t, readable)
    \/ StorageList(t)
    \/ \E ok \in BOOLEAN : StorageRemove(t, ok)
    \/ StorageUnindex(t)
    \/ StorageUnlock(t)
    \/ StorageReport(t)
    \/ StorageRespond(t)

StoreLockRun ==
    \E t \in StoreLockThreads : StorageStep(t) /\ UNCHANGED calls /\ StoreLockOnly

NextStoreLock == StoreLockWriteChunk \/ StoreLockCall \/ StoreLockRun

SpecStoreLock == InitStoreLock /\ [][NextStoreLock]_vars

\* ------------------------------------------------------- SpecLocks
\* The master and one chunk server with their locks.  Two goroutines of the
\* master serve the RPCs; a goroutine of the chunk server serves WriteChunk
\* and ReadChunk RPCs, deletes a chunk and runs sendHeartbeat, which lists the
\* chunks and then sends the Heartbeat RPC; a WriteChunk that succeeded
\* starts a report, which is a ReportChunk RPC to the master.  MaxCalls calls
\* in all.

LocksThreads == {"s1"}

LocksNames == {<<"a">>}

LocksHandles == {GenerateChunkHandle(n, 0) : n \in LocksNames}

LocksData == {Data(1, 1)}

LocksFrame == UNCHANGED <<clientVars, lostReport, reportedBefore, probe, held>>

InitLocks ==
    /\ files = <<>>
    /\ chunks = <<>>
    /\ chunkServers = <<>>
    /\ now = 0
    /\ panicked = FALSE
    /\ rpc = [c \in Callers |-> Idle]
    /\ avail = NoQuery
    /\ calls = 0
    /\ storage = [a \in {StoreNode} |-> NoStorage]
    /\ reports = EmptyBag
    /\ client = Idle
    /\ uploads = <<>>
    /\ lostReport = NoReport
    /\ reportedBefore = <<>>
    /\ probe = NoProbe
    /\ held = <<>>
    /\ mu = [l \in {"metadata", StoreNode} |-> Unlocked]
    /\ threads = [t \in Callers \cup LocksThreads |->
                    IF t \in Callers
                    THEN MasterThread("idle", NoRequest, FALSE)
                    ELSE StorageThread(StoreNode, "idle", "none", <<>>, <<>>, "nil", <<>>)]

\* a client calls the master
LocksClientCall ==
    \E t \in Callers, n \in LocksNames, op \in {"UploadFile", "DownloadFile", "ListFiles"} :
        /\ MetadataDispatch(t, Request(op, n, IF op = "UploadFile" THEN 1 ELSE 0,
                                       "", <<>>, {}), "")
        /\ UNCHANGED nodeVars
        /\ LocksFrame

\* a client calls the chunk server, or a chunk is deleted
LocksNodeCall ==
    \E t \in LocksThreads, h \in LocksHandles, data \in LocksData,
       op \in {"WriteChunk", "ReadChunk", "DeleteChunk"} :
        /\ StorageDispatch(t, op, h, IF op = "WriteChunk" THEN data ELSE <<>>)
        /\ UNCHANGED masterVars
        /\ LocksFrame

\* the ticker of sendHeartbeat fires: s.storage.ListChunks()
LocksTick ==
    \E t \in LocksThreads :
        /\ StorageDispatch(t, "ListChunks", <<>>, <<>>)
        /\ UNCHANGED masterVars
        /\ LocksFrame

\* sendHeartbeat sends the chunks it listed: the Heartbeat RPC
LocksHeartbeat ==
    \E s \in LocksThreads, t \in Callers :
        /\ threads[s].at = "rpc Heartbeat"
        /\ MetadataDispatch(t, Request("Heartbeat", <<>>, 0, threads[s].side,
                                       <<>>, threads[s].out), s)
        /\ UNCHANGED nodeVars
        /\ LocksFrame

\* reportChunkToMaster sends the ReportChunk RPC
LocksReportChunk ==
    \E t \in Callers, r \in BagToSet(reports) :
        /\ MetadataDispatch(t, Request("ReportChunk", <<>>, 0, r[1], r[2], {}), "")
        /\ reports' = reports (-) SetToBag({r})
        /\ UNCHANGED storage
        /\ LocksFrame

LocksMasterRun ==
    \E t \in Callers :
        /\ \/ MetadataLock(t)
           \/ MetadataBody(t)
           \/ MetadataUnlock(t)
           \/ MetadataRespond(t)
        /\ UNCHANGED <<calls, nodeVars>>
        /\ LocksFrame

LocksNodeRun ==
    \E t \in LocksThreads :
        /\ StorageStep(t)
        /\ UNCHANGED <<calls, masterVars>>
        /\ LocksFrame

NextLocks ==
    \/ LocksClientCall
    \/ LocksNodeCall
    \/ LocksTick
    \/ LocksHeartbeat
    \/ LocksReportChunk
    \/ LocksMasterRun
    \/ LocksNodeRun

SpecLocks == InitLocks /\ [][NextLocks]_vars

\* ------------------------------------------------------- SpecUtils
\* The functions of common/utils.go called directly: CalculateNumChunks with
\* sizes around the multiples of ChunkSize, and GenerateChunkHandle with
\* names that have digits and "-" in them.  probe is the last call with its
\* arguments and result, and for GenerateChunkHandle the call before it too.

UtilSizes == (0 - ChunkSize)..(3 * ChunkSize + 1)

UtilChars == {"a", "-", "1"}

\* the names of at most two characters
UtilNames ==
    {<<>>} \cup {<<x>> : x \in UtilChars} \cup {<<x, y>> : x, y \in UtilChars}

UtilCall(op, filesize, numChunks, first, second) ==
    [op |-> op, filesize |-> filesize, numChunks |-> numChunks,
     first |-> first, second |-> second]

\* one call of GenerateChunkHandle and what it returned
HandleCall(filename, chunkIndex) ==
    [filename |-> filename, chunkIndex |-> chunkIndex,
     handle |-> GenerateChunkHandle(filename, chunkIndex)]

UtilOnly ==
    UNCHANGED <<masterVars, calls, nodeVars, clientVars, lostReport, reportedBefore, held, lockVars>>

InitUtils ==
    /\ files = <<>>
    /\ chunks = <<>>
    /\ chunkServers = <<>>
    /\ now = 0
    /\ panicked = FALSE
    /\ rpc = <<>>
    /\ avail = NoQuery
    /\ calls = 0
    /\ NoSystem
    /\ lostReport = NoReport
    /\ reportedBefore = <<>>
    /\ probe = UtilCall("none", 0, 0, HandleCall(<<>>, 0), HandleCall(<<>>, 0))
    /\ held = <<>>
    /\ NoLocks

UtilCalculateNumChunks ==
    \E filesize \in UtilSizes :
        /\ probe' = UtilCall("CalculateNumChunks", filesize, CalculateNumChunks(filesize),
                             HandleCall(<<>>, 0), HandleCall(<<>>, 0))
        /\ UtilOnly

UtilGenerateChunkHandle ==
    \E filename \in UtilNames, chunkIndex \in 0..MaxIndex :
        /\ probe' = UtilCall("GenerateChunkHandle", 0, 0, probe.second,
                             HandleCall(filename, chunkIndex))
        /\ UtilOnly

NextUtils == UtilCalculateNumChunks \/ UtilGenerateChunkHandle

SpecUtils == InitUtils /\ [][NextUtils]_vars

\* ------------------------------------------------------- SpecSnapshot
\* A DownloadFile handler taken apart into GetFile and the later read
\* through the pointer it got, beside an UploadFile handler of another caller
\* and chunk reports.  held[c] is what the pointer of c's handler refers to:
\* live says that it is still the map's entry, record is the FileMetadata it
\* was when an AddFile replaced it, and got is the history of what it was
\* when GetFile returned, which is what a copy made under the lock would be.

SnapNames == {<<"a">>}

SnapSizes == {1, ChunkSize + 1}

SnapHandles == {GenerateChunkHandle(n, i) : n \in SnapNames, i \in 0..1}

NoFile == [Filename |-> <<>>, Filesize |-> 0, ChunkCount |-> 0, Chunks |-> <<>>]

NoPointer == [live |-> FALSE, record |-> NoFile, got |-> NoFile]

InitSnapshot ==
    /\ files = <<>>
    /\ chunks = <<>>
    /\ chunkServers = <<>>
    /\ now = 0
    /\ panicked = FALSE
    /\ rpc = [c \in {"c1", "c2"} |-> Idle]
    /\ avail = NoQuery
    /\ calls = 0
    /\ NoSystem
    /\ lostReport = NoReport
    /\ reportedBefore = <<>>
    /\ probe = NoProbe
    /\ held = [c \in {"c1"} |-> NoPointer]
    /\ NoLocks

\* UploadFile of caller c2 up to AddFile, which puts a new record into the
\* map; a pointer to the old one goes on referring to the old one
SnapUploadFile ==
    \E n \in SnapNames, s \in SnapSizes :
        /\ Send
        /\ UploadFileBegin("c2", n, s)
        /\ held' = [c \in DOMAIN held |->
                       IF held[c].live /\ rpc[c].Filename = n
                       THEN [held[c] EXCEPT !.live = FALSE, !.record = files[n]]
                       ELSE held[c]]
        /\ UNCHANGED <<lostReport, reportedBefore, probe, lockVars>>

SnapUploadStep == UploadFileStep("c2") /\ MasterOnly

SnapGetFile ==
    \E n \in SnapNames :
        /\ Send
        /\ DownloadFileGetFile("c1", n)
        /\ held' = [held EXCEPT !["c1"] =
                       IF n \in DOMAIN files
                       THEN [live |-> TRUE, record |-> NoFile, got |-> files[n]]
                       ELSE NoPointer]
        /\ UNCHANGED <<lostReport, reportedBefore, probe, lockVars>>

SnapRange == DownloadFileRange("c1") /\ MasterOnly

SnapGetChunk == DownloadFileGetChunk("c1") /\ MasterOnly

SnapReportChunk ==
    \E a \in MasterNodes, h \in SnapHandles : ReportChunk(a, h) /\ MasterOnly

NextSnapshot ==
    \/ SnapUploadFile
    \/ SnapUploadStep
    \/ SnapGetFile
    \/ SnapRange
    \/ SnapGetChunk
    \/ SnapReportChunk

SpecSnapshot == InitSnapshot /\ [][NextSnapshot]_vars

\* ------------------------------------------------------------ claims

\* a handler of the kind `op` that has taken its request
Serving(c, op) == rpc[c].pc # "idle" /\ rpc[c].op = op

\* C2, at the states in which no handler is under way (the claim covers the
\* states in between as well): every file record F has, for every index i
\* below F.ChunkCount, a chunk record of F's name and index i whose handle is
\* F.Chunks[i]; so F.Chunks has ChunkCount entries.
C2_FileChunkInvariant ==
    (\A c \in DOMAIN rpc : Free(c)) =>
    \A f \in DOMAIN files :
        /\ Len(files[f].Chunks) = files[f].ChunkCount
        /\ \A i \in 0..(files[f].ChunkCount - 1) :
              \E h \in DOMAIN chunks :
                  /\ chunks[h].Filename = files[f].Filename
                  /\ chunks[h].ChunkIndex = i
                  /\ files[f].Chunks[i + 1] = h

\* C4 as stated: every address that a successful ReportChunk had recorded for
\* a chunk of the file before a DownloadFile call began is among the addresses
\* of that chunk's placement in the response, without duplicates.
C4_ReportedStaysListed ==
    \A c \in DOMAIN rpc :
        (Serving(c, "DownloadFile") /\ rpc[c].err = "nil") =>
            \A k \in 1..Len(rpc[c].chunkLocations) :
                LET p == rpc[c].chunkLocations[k]
                IN  /\ NoDuplicates(p.ChunkServerAddresses)
                    /\ \A pair \in reportedBefore[c] :
                          pair[2] = p.ChunkHandle =>
                              pair[1] \in Range(p.ChunkServerAddresses)

\* this step is the AddChunk of an UploadFile handler for handle h
RecreatedInStep(h) ==
    \E c \in DOMAIN rpc :
        /\ rpc[c].pc = "AddChunk"
        /\ rpc'[c].pc = "AddChunkToFile"
        /\ GenerateChunkHandle(rpc[c].Filename, rpc[c].i) = h

\* C4 as amended: a ReportChunk for a handle with a chunk record leaves the
\* address in the location list exactly once (also when repeated); an address
\* stays in the list over every step except the AddChunk of an UploadFile
\* that re-creates the chunk record; and the placement DownloadFile builds
\* for a chunk lists the chunk's locations as they are when it looks it up.
C4_ReportListedUntilRecreated ==
    [][ /\ \A h \in DOMAIN chunks' : NoDuplicates(chunks'[h].Locations)
        /\ \A h \in DOMAIN chunks :
              \A a \in Range(chunks[h].Locations) :
                  a \in Range(chunks'[h].Locations) \/ RecreatedInStep(h)
        /\ \A a \in MasterNodes, h \in DOMAIN chunks :
              ReportChunk(a, h) =>
                  Cardinality({k \in 1..Len(chunks'[h].Locations) :
                                  chunks'[h].Locations[k] = a}) = 1
        /\ \A c \in DOMAIN rpc :
              (rpc[c].pc = "GetChunk" /\ rpc'[c] # rpc[c] /\ rpc'[c].err = "nil") =>
                  LET p == rpc'[c].chunkLocations[Len(rpc'[c].chunkLocations)]
                  IN  /\ p.ChunkHandle = rpc[c].fileChunks[rpc[c].i + 1]
                      /\ p.ChunkServerAddresses = chunks[p.ChunkHandle].Locations
      ]_vars

\* C4 witness: a DownloadFile response lists an address that a ReportChunk
\* recorded before the call began.
C4_Witness ==
    \E c \in DOMAIN rpc :
        /\ Serving(c, "DownloadFile")
        /\ rpc[c].pc = "return"
        /\ rpc[c].err = "nil"
        /\ \E k \in 1..Len(rpc[c].chunkLocations) :
              \E pair \in reportedBefore[c] :
                  /\ pair[2] = rpc[c].chunkLocations[k].ChunkHandle
                  /\ pair[1] \in Range(rpc[c].chunkLocations[k].ChunkServerAddresses)

\* C5: a direct GetAvailableChunkServers(k) call, k >= 0, returns a
\* duplicate-free list of registered servers that are live at the call, of at
\* most k and at most as many entries as there are live servers, and of
\* exactly k entries when k >= 1 and at least k servers are live.
C5_AvailableNodes ==
    avail.k >= 0 =>
        /\ NoDuplicates(avail.servers)
        /\ Range(avail.servers) \subseteq avail.registered
        /\ Range(avail.servers) \subseteq avail.live
        /\ Len(avail.servers) <= avail.k
        /\ Len(avail.servers) <= Cardinality(avail.live)
        /\ (avail.k >= 1 /\ Cardinality(avail.live) >= avail.k) =>
               Len(avail.servers) = avail.k

\* ---- C1

\* the ReadChunk calls of the download for placement ci, in the order made
TriedFor(ci) == SelectSeq(client.tried, LAMBDA t : t.ci = ci)

\* some address of placement ci returned bytes
ReadFrom(ci) == \E k \in 1..Len(client.tried) : client.tried[k].ci = ci /\ client.tried[k].ok

\* the client's last operation was a download, and it has ended
DownloadEnded == client.op = "DownloadFile" /\ client.pc = "idle"

\* C1 as stated: a download of a name whose upload had ended with every chunk
\* acknowledged by a chunk server succeeds with the uploaded bytes, when the
\* master answers and the output file can be written.
C1_RoundTrip ==
    \A i \in 1..Len(uploads) :
        (/\ DownloadEnded
         /\ uploads[i].name = client.name
         /\ uploads[i].done /\ uploads[i].replicated
         /\ client.err \notin {"failed to request download", "failed to write file"}) =>
            /\ client.err = "nil"
            /\ client.written
            /\ client.output = uploads[i].data

\* C1 as amended: a download of a name that was uploaded once, after the
\* upload ended, either fails (the master cannot be asked, no listed address
\* returns some chunk, or the output file cannot be written), or writes an
\* output that equals the uploaded bytes, in length and byte for byte; a
\* download fails for want of a chunk only if every address of some
\* placement failed or the placement had none, so never for an empty file.
C1_RoundTripWhenRead ==
    \A i \in 1..Len(uploads) :
        (DownloadEnded /\ uploads[i].name = client.name /\ uploads[i].done) =>
            /\ client.err \in {"nil", "failed to request download",
                               "failed to download chunk", "failed to write file"}
            /\ client.err = "nil" =>
                  /\ client.written
                  /\ Len(client.output) = Len(uploads[i].data)
                  /\ client.output = uploads[i].data
            /\ client.err = "failed to download chunk" =>
                  /\ uploads[i].data # <<>>
                  /\ \E ci \in 1..Len(client.placements) : ~ReadFrom(ci)

\* C1 witness: a file of a full and a short chunk was uploaded and the
\* download returned its bytes.
C1_Witness ==
    /\ DownloadEnded
    /\ client.err = "nil"
    /\ client.written
    /\ Len(uploads) = 1
    /\ Len(uploads[1].data) = ChunkSize + 1
    /\ client.output = uploads[1].data

\* ---- C3

\* ceil(filesize / ChunkSize) for filesize >= 0
Ceil(filesize) == (filesize + ChunkSize - 1) \div ChunkSize

C6_HeartbeatRepairs ==
    [][ \A c \in DOMAIN rpc :
          (/\ lostReport.heartbeat
           /\ rpc[c].pc = "GetChunk"
           /\ rpc'[c] # rpc[c]
           /\ rpc[c].fileChunks[rpc[c].i + 1] = lostReport.chunkHandle
           /\ rpc'[c].err = "nil") =>
              lostReport.address \in
                  Range(rpc'[c].chunkLocations[Len(rpc'[c].chunkLocations)].ChunkServerAddresses)
      ]_vars

\* ---- C7

\* C7: an upload of the client that ends in success had, for every chunk of
\* the file, a WriteChunk that a chunk server acknowledged.
C7_SuccessNeedsAck ==
    (client.op = "UploadFile" /\ client.pc = "idle" /\ client.err = "nil") =>
        client.acked = 1..Len(client.placements)

\* ---- C8

\* this step is the step `to` of the UploadFile handler serving c, from `from`
HandlerStep(c, from) == rpc[c].pc = from /\ rpc'[c] # rpc[c]

\* C8: with fewer live servers than ReplicationFactor, none included, the
\* UploadFile handler goes on: every chunk record it creates has no location,
\* the placement of every chunk lists the live servers, each once, and the
\* response is a success with one placement per chunk, the file record and
\* all its chunk records being there.
C8_UnderReplication ==
    [][ \A c \in DOMAIN rpc :
          /\ HandlerStep(c, "AddChunk") =>
                LET h == GenerateChunkHandle(rpc[c].Filename, rpc[c].i)
                IN  h \in DOMAIN chunks' /\ chunks'[h].Locations = <<>>
          /\ (HandlerStep(c, "GetServers") /\ Cardinality(LiveServers) < ReplicationFactor) =>
                LET p == rpc'[c].chunkLocations[Len(rpc'[c].chunkLocations)]
                IN  /\ rpc'[c].err = "nil"
                    /\ Len(rpc'[c].chunkLocations) = rpc[c].i + 1
                    /\ p.ChunkIndex = rpc[c].i
                    /\ Range(p.ChunkServerAddresses) = LiveServers
                    /\ Len(p.ChunkServerAddresses) = Cardinality(LiveServers)
          /\ (rpc'[c].pc = "return" /\ rpc'[c] # rpc[c] /\ rpc'[c].op = "UploadFile") =>
                /\ rpc'[c].err = "nil"
                /\ Len(rpc'[c].chunkLocations) = rpc'[c].numChunks
                /\ rpc'[c].Filename \in DOMAIN files'
                /\ \A k \in 1..rpc'[c].numChunks :
                      /\ GenerateChunkHandle(rpc'[c].Filename, k - 1) \in DOMAIN chunks'
                      /\ rpc'[c].chunkLocations[k].ChunkHandle =
                             GenerateChunkHandle(rpc'[c].Filename, k - 1)
      ]_vars

\* C8 witness: an upload of two chunks has returned while one of the two
\* registered servers is live, and both placements list that server alone.
C8_Witness ==
    \E c \in DOMAIN rpc, a \in DOMAIN chunkServers :
        /\ Serving(c, "UploadFile")
        /\ rpc[c].pc = "return"
        /\ rpc[c].Filesize = ChunkSize + 1
        /\ Cardinality(DOMAIN chunkServers) = 2
        /\ LiveServers = {a}
        /\ \A k \in 1..2 : rpc[c].chunkLocations[k].ChunkServerAddresses = <<a>>
        /\ \A k \in 1..2 : chunks[rpc[c].chunkLocations[k].ChunkHandle].Locations = <<>>

\* ---- C9

\* the download has received its placements
Downloading ==
    /\ client.op = "DownloadFile"
    /\ client.pc \in {"ReadChunk", "WriteFile", "idle"}
    /\ client.err # "failed to request download"

\* the calls made so far follow the placements and, within a placement, its
\* addresses in order, and stop at the first address that returns bytes,
\* whose bytes are the ones in the buffer
TriedInOrder ==
    /\ \A k \in 1..(Len(client.tried) - 1) :
          /\ client.tried[k].ci <= client.tried[k + 1].ci
          /\ client.tried[k].ok => client.tried[k].ci < client.tried[k + 1].ci
          /\ ~client.tried[k].ok => client.tried[k + 1].ci = client.tried[k].ci
    /\ \A ci \in 1..Len(client.placements) :
          LET t == TriedFor(ci)
              loc == client.placements[ci]
          IN  /\ Len(t) <= Len(loc.ChunkServerAddresses)
              /\ \A k \in 1..Len(t) :
                    /\ t[k].address = loc.ChunkServerAddresses[k]
                    /\ t[k].ok => k = Len(t)
                    /\ t[k].ok =>
                          \A b \in 1..Len(t[k].data) :
                              loc.ChunkIndex * ChunkSize + b <= Len(client.fileData) =>
                                  client.fileData[loc.ChunkIndex * ChunkSize + b] = t[k].data[b]

\* the download failed at placement ci: every address of it was tried and
\* failed, every placement before it was read, none after it was tried
FailedAt(ci) ==
    /\ client.errChunk = client.placements[ci].ChunkIndex
    /\ Len(TriedFor(ci)) = Len(client.placements[ci].ChunkServerAddresses)
    /\ ~ReadFrom(ci)
    /\ \A k \in 1..(ci - 1) : ReadFrom(k)
    /\ \A k \in (ci + 1)..Len(client.placements) : TriedFor(k) = <<>>

\* C9 as stated: the addresses are tried in order up to the first that
\* returns bytes; the download succeeds exactly if every placement has an
\* address that returns bytes, and otherwise fails naming the first chunk
\* whose addresses all failed, and writes no output file.
C9_SuccessIffAllRead ==
    Downloading =>
        /\ TriedInOrder
        /\ client.pc = "idle" =>
              /\ client.err = "nil" <=> \A ci \in 1..Len(client.placements) : ReadFrom(ci)
              /\ client.err # "nil" =>
                    /\ ~client.written
                    /\ \E ci \in 1..Len(client.placements) : FailedAt(ci)

\* C9 as amended: as stated, except that a download all of whose placements
\* were read fails all the same when the output file cannot be written, with
\* the error of the write and without naming a chunk.
C9_ReplicaFallback ==
    Downloading =>
        /\ TriedInOrder
        /\ client.pc = "idle" =>
              /\ client.err \in {"nil", "failed to download chunk", "failed to write file"}
              /\ client.err = "nil" =>
                    /\ \A ci \in 1..Len(client.placements) : ReadFrom(ci)
                    /\ client.written
                    /\ client.output = client.fileData
              /\ client.err = "failed to write file" =>
                    /\ \A ci \in 1..Len(client.placements) : ReadFrom(ci)
                    /\ client.errChunk = -1
              /\ client.err = "failed to download chunk" =>
                    /\ ~client.written
                    /\ \E ci \in 1..Len(client.placements) : FailedAt(ci)
              /\ (\A ci \in 1..Len(client.placements) : ReadFrom(ci)) =>
                    client.err \in {"nil", "failed to write file"}

\* C9 witness: a download succeeded after the first address of a placement
\* had failed and the second had returned the bytes.
C9_Witness ==
    /\ Downloading
    /\ client.pc = "idle"
    /\ client.err = "nil"
    /\ \E k \in 1..(Len(client.tried) - 1) :
          /\ ~client.tried[k].ok
          /\ client.tried[k + 1].ok
          /\ client.tried[k + 1].ci = client.tried[k].ci

\* ---- C10

\* C10: an UploadFile with an empty name or a negative size fails with
\* InvalidArgument and creates no file record.
C10_InvalidArgument ==
    /\ \A c \in DOMAIN rpc :
          (Serving(c, "UploadFile")
             /\ (rpc[c].Filename = <<>> \/ rpc[c].Filesize < 0)) =>
              (rpc[c].pc = "return" /\ rpc[c].err = "InvalidArgument")
    /\ \A f \in DOMAIN files : f # <<>> /\ files[f].Filesize >= 0

\* ---- C11

\* the request that caller c sends in this step is taken by a handler `op`
Begins(c, op) == Free(c) /\ rpc'[c] # rpc[c] /\ rpc'[c].op = op

\* the FileInfo entries of the file records as they are
FileInfos ==
    {[Filename |-> files[f].Filename, Filesize |-> files[f].Filesize,
      NumChunks |-> files[f].ChunkCount] : f \in DOMAIN files}

\* C11: a DownloadFile for a name without a file record returns the error
\* "file not found" (the master's NotFound) with no placement and leaves the
\* file, chunk and chunk server records as they are; and a ListFiles call,
\* whenever it is made, succeeds with the entries of the file records as they
\* are, so after a failed download with those of before.
C11_MissingFileNotFound ==
    [][ \A c \in DOMAIN rpc :
          /\ (Begins(c, "DownloadFile") /\ rpc'[c].Filename \notin DOMAIN files) =>
                /\ rpc'[c].pc = "return"
                /\ rpc'[c].err = "file not found"
                /\ rpc'[c].chunkLocations = <<>>
                /\ files' = files /\ chunks' = chunks /\ chunkServers' = chunkServers
                /\ ~panicked'
          /\ (Begins(c, "DownloadFile") /\ rpc'[c].Filename \in DOMAIN files) =>
                rpc'[c].err # "file not found"
          /\ Begins(c, "ListFiles") =>
                /\ rpc'[c].pc = "return"
                /\ rpc'[c].err = "nil"
                /\ rpc'[c].Files = FileInfos
                /\ files' = files
      ]_vars

\* C11 witness: a DownloadFile for a name without a record has failed on a
\* master that holds a record with chunks for another name.
C11_Witness ==
    \E c \in DOMAIN rpc :
        /\ Serving(c, "DownloadFile")
        /\ rpc[c].pc = "return"
        /\ rpc[c].err = "file not found"
        /\ rpc[c].Filename \notin DOMAIN files
        /\ \E f \in DOMAIN files : files[f].Chunks # <<>>

\* ---- C12

\* s is t or the beginning of t
IsPrefix(s, t) == Len(s) <= Len(t) /\ SubSeq(t, 1, Len(s)) = s

\* C12 as stated: over every step of the master, every chunk record stays
\* and every address in its location list is still in it.
C12_LocationsOnlyGrow ==
    [][ \A h \in DOMAIN chunks :
          /\ h \in DOMAIN chunks'
          /\ \A a \in Range(chunks[h].Locations) : a \in Range(chunks'[h].Locations)
      ]_vars

\* C12 as amended: over every step of the master, every chunk record stays
\* and its location list is kept or extended at its end, except in the
\* AddChunk step of an UploadFile handler for the chunk's own file name and
\* index, which leaves the record with no location.
C12_LocationsGrowUntilRecreated ==
    [][ \A h \in DOMAIN chunks :
          /\ h \in DOMAIN chunks'
          /\ \/ IsPrefix(chunks[h].Locations, chunks'[h].Locations)
             \/ /\ RecreatedInStep(h)
                /\ chunks'[h].Locations = <<>>
                /\ \E c \in DOMAIN rpc :
                      /\ rpc[c].pc = "AddChunk"
                      /\ rpc[c].Filename = chunks[h].Filename
                      /\ rpc[c].i = chunks[h].ChunkIndex
      ]_vars

\* C12 witness: a chunk of one name has a location while uploads of the
\* other name and of its own name with fewer chunks have been served and the
\* caller's last request, a DownloadFile, has returned.
C12_Witness ==
    /\ Serving("c1", "DownloadFile")
    /\ rpc["c1"].pc = "return"
    /\ <<"b">> \in DOMAIN files
    /\ <<"a">> \in DOMAIN files
    /\ GenerateChunkHandle(<<"a">>, 0) \in DOMAIN chunks
    /\ chunks[GenerateChunkHandle(<<"a">>, 0)].Locations # <<>>

\* ---- C13

\* the age of the last heartbeat of a registered server
HeartbeatAge(a) == now - chunkServers[a].LatestHeartbeat

\* C13: a registered server stays registered; a GetAvailableChunkServers
\* call returns no server whose last heartbeat is 30 s old or older; a
\* heartbeat makes its sender's age 0; and a call that asks for at least one
\* server and for at least as many as have a heartbeat younger than 30 s
\* returns all of those, so a server is returned again from its next
\* heartbeat on.
C13_StaleNodeFiltered ==
    [][ /\ DOMAIN chunkServers \subseteq DOMAIN chunkServers'
        /\ \A a \in DOMAIN chunkServers' :
              (a \notin DOMAIN chunkServers \/ chunkServers'[a] # chunkServers[a]) =>
                  now' - chunkServers'[a].LatestHeartbeat = 0
        /\ avail' # avail =>
              /\ \A a \in DOMAIN chunkServers :
                    HeartbeatAge(a) >= LivenessWindow => a \notin Range(avail'.servers)
              /\ (avail'.k >= 1 /\ avail'.k >=
                     Cardinality({a \in DOMAIN chunkServers : HeartbeatAge(a) < LivenessWindow})) =>
                    \A a \in DOMAIN chunkServers :
                        HeartbeatAge(a) < LivenessWindow => a \in Range(avail'.servers)
      ]_vars

\* C13 witness: the last call was made when one registered server's heartbeat
\* was exactly 30 s old and another's had just been recorded after 30 s of
\* silence; it returned the second and not the first.
C13_Witness ==
    \E a, b \in DOMAIN chunkServers :
        /\ now = LivenessWindow
        /\ chunkServers[b].LatestHeartbeat = 0
        /\ chunkServers[a].LatestHeartbeat = now
        /\ avail.k >= 2
        /\ avail.registered = {a, b}
        /\ avail.live = {a}
        /\ avail.servers = <<a>>

\* ---- C14

\* C14: as long as the last WriteChunk of a handle succeeded with bytes b and
\* no DeleteChunk of it was called since, the handle is in the map and in
\* ListChunks, HasChunk is true, and ReadChunk returns exactly b whenever the
\* operating system reads the file; the bytes are those of the latest such
\* write; and ReadChunk fails with "chunk not found" exactly when the handle
\* is not in the map.
C14_StoreRoundTrip ==
    /\ \A h \in DOMAIN probe.stored :
          probe.stored[h].valid =>
              /\ HasChunk(StoreNode, h)
              /\ h \in ListChunks(StoreNode)
              /\ \A readable \in BOOLEAN :
                    LET r == StorageReadChunkResult(StoreNode, h, readable)
                    IN  /\ r.err # "chunk not found"
                        /\ readable => (r.err = "nil" /\ r.data = probe.stored[h].data)
    /\ probe.op = "WriteChunk" /\ probe.err = "nil" =>
          /\ probe.stored[probe.chunkHandle] = [valid |-> TRUE, data |-> probe.data]
    /\ probe.op = "ReadChunk" =>
          /\ probe.err = "chunk not found" <=> ~HasChunk(StoreNode, probe.chunkHandle)
          /\ probe.err \in {"nil", "chunk not found", "failed to read chunk"}
          /\ probe.stored[probe.chunkHandle].valid =>
                /\ probe.err \in {"nil", "failed to read chunk"}
                /\ probe.err = "nil" => probe.data = probe.stored[probe.chunkHandle].data
    /\ probe.op = "HasChunk" =>
          /\ probe.has = HasChunk(StoreNode, probe.chunkHandle)
          /\ probe.stored[probe.chunkHandle].valid => probe.has
    /\ probe.op = "ListChunks" =>
          \A h \in DOMAIN probe.stored : probe.stored[h].valid => h \in probe.list

\* C14 witness: a ReadChunk has returned the bytes of a full chunk that the
\* last WriteChunk of the handle stored, while the other handle has a file in
\* the directory and no entry in the map.
C14_Witness ==
    /\ probe.op = "ReadChunk"
    /\ probe.err = "nil"
    /\ probe.stored[probe.chunkHandle].valid
    /\ probe.data = Data(2, ChunkSize)
    /\ \E h \in StoreHandles :
          h \in DOMAIN storage[StoreNode].disk /\ ~HasChunk(StoreNode, h)

\* ---- C15

\* C15: for a size s >= 0, CalculateNumChunks(s) is ceil(s / ChunkSize): the
\* least n with n * ChunkSize >= s; 0 for s = 0, s / ChunkSize for an exact
\* multiple and floor(s / ChunkSize) + 1 otherwise, so 2 for ChunkSize + 1.
C15_ChunkCountIsCeil ==
    (probe.op = "CalculateNumChunks" /\ probe.filesize >= 0) =>
        LET s == probe.filesize
            n == probe.numChunks
        IN  /\ n * ChunkSize >= s
            /\ (n - 1) * ChunkSize < s
            /\ s = 0 => n = 0
            /\ s % ChunkSize = 0 => n = s \div ChunkSize
            /\ s % ChunkSize # 0 => n = (s \div ChunkSize) + 1
            /\ s = ChunkSize + 1 => n = 2

\* C15 witness: the call for ChunkSize + 1 bytes has returned 2.
C15_Witness ==
    /\ probe.op = "CalculateNumChunks"
    /\ probe.filesize = ChunkSize + 1
    /\ probe.numChunks = 2

\* ---- C17

C16_ListFilesSnapshot ==
    [][ /\ \A c \in DOMAIN rpc :
              /\ Begins(c, "ListFiles") =>
                    /\ rpc'[c].pc = "return"
                    /\ rpc'[c].err = "nil"
                    /\ Cardinality(rpc'[c].Files) = Cardinality(DOMAIN files)
                    /\ \A f \in DOMAIN files :
                          {e \in rpc'[c].Files : e.Filename = f} =
                              {[Filename |-> f, Filesize |-> files[f].Filesize,
                                NumChunks |-> files[f].ChunkCount]}
                    /\ files = <<>> => rpc'[c].Files = {}
                    /\ UNCHANGED <<files, chunks, chunkServers, now, panicked>>
              /\ (Begins(c, "UploadFile") /\ ~panicked') =>
                    /\ files'[rpc'[c].Filename].Filesize = rpc'[c].Filesize
                    /\ files'[rpc'[c].Filename].ChunkCount = CalculateNumChunks(rpc'[c].Filesize)
        /\ \A f \in DOMAIN files :
              /\ f \in DOMAIN files'
              /\ (files'[f].Filesize # files[f].Filesize
                    \/ files'[f].ChunkCount # files[f].ChunkCount) =>
                     \E c \in DOMAIN rpc : Begins(c, "UploadFile") /\ rpc'[c].Filename = f
      ]_vars

\* C16 witness: a ListFiles call has returned two entries, one of a file
\* without chunks and one of a file of two chunks.
C16_Witness ==
    \E c \in DOMAIN rpc :
        /\ Serving(c, "ListFiles")
        /\ rpc[c].pc = "return"
        /\ Cardinality(rpc[c].Files) = 2
        /\ \E e \in rpc[c].Files : e.Filesize = 0 /\ e.NumChunks = 0
        /\ \E e \in rpc[c].Files : e.Filesize = ChunkSize + 1 /\ e.NumChunks = 2

\* ---- C18

\* C18: what GetFile returned to a DownloadFile handler is not changed by a
\* later AddChunkToFile or AddFile: the chunk list the handler loops over is
\* the chunk list the record had when GetFile returned it.
C18_SnapshotReads ==
    \A c \in DOMAIN held :
        (/\ Serving(c, "DownloadFile")
         /\ rpc[c].err = "nil"
         /\ rpc[c].pc \in {"GetChunk", "return"}) =>
            rpc[c].fileChunks = held[c].got.Chunks

\* ---- C19

\* a is among the locations of the chunk record of h
IsLocation(a, h) == h \in DOMAIN chunks /\ a \in Range(chunks[h].Locations)

\* every chunk of the client's placements has its placed addresses, all of
\* them and no other, as locations
PlacedAreLocations ==
    \A k \in 1..Len(client.placements) :
        LET p == client.placements[k]
        IN  \A a \in SettleNodes :
                IsLocation(a, p.ChunkHandle) <=> a \in Range(p.ChunkServerAddresses)

\* the chunk record of h is not made anew from here on: the last upload is
\* under way or over and its handler is past AddChunk
NotRecreatedAfter(h) ==
    /\ h \in DOMAIN chunks
    /\ Len(uploads) = 2
    /\ rpc[ClientName].pc \in {"AddChunkToFile", "GetServers", "return"}

\* the last upload has ended, every placement of it has ReplicationFactor
\* addresses and every one of them has stored the chunk's bytes
AllWritten ==
    /\ Len(uploads) = 2
    /\ uploads[2].done
    /\ client.placements # <<>>
    /\ \A k \in 1..Len(client.placements) :
          LET p == client.placements[k]
          IN  /\ Len(p.ChunkServerAddresses) = ReplicationFactor
              /\ \A a \in Range(p.ChunkServerAddresses) :
                    /\ HasChunk(a, p.ChunkHandle)
                    /\ StorageReadChunk(a, p.ChunkHandle) = ChunkData(uploads[2].data, p.ChunkIndex)
                    /\ BagIn(<<a, p.ChunkHandle>>, reports) \/ IsLocation(a, p.ChunkHandle)

\* C19: while the master can be reached, a report that a successful
\* WriteChunk of h on a has started, for a chunk record that is not made anew
\* afterwards, leads to a being among the locations of h for good; and once
\* all ReplicationFactor addresses of every placement have stored their chunk,
\* every chunk comes to have exactly its placed addresses as locations, for
\* good.
C19_ReportSettles ==
    /\ \A a \in SettleNodes, h \in SettleHandles :
          (BagIn(<<a, h>>, reports) /\ NotRecreatedAfter(h))
              ~> [](IsLocation(a, h))
    /\ AllWritten ~> [](AllWritten /\ PlacedAreLocations)

\* C19 witness: after the second upload the chunk has all three chunk
\* servers as locations and no report is under way.
C19_Witness ==
    /\ AllWritten
    /\ reports = EmptyBag
    /\ \A h \in SettleHandles, a \in SettleNodes : IsLocation(a, h)

\* ---- C20

\* C20: WriteChunk answers without waiting for the report: in the step in
\* which the client gets the success of a WriteChunk of h on a, the bytes
\* are in the storage of a, the report goroutine of (a, h) is still under
\* way and the chunk records of the master are what they were.
C20_WriteChunkAnswersBeforeReport ==
    [][(/\ client.pc = "WriteChunk"
        /\ client.ci \notin client.acked
        /\ client.ci \in client'.acked) =>
          LET loc == client.placements[client.ci]
              address == loc.ChunkServerAddresses[client.ai]
          IN  /\ loc.ChunkHandle \in storage'[address].chunks
              /\ BagIn(<<address, loc.ChunkHandle>>, reports')
              /\ chunks' = chunks]_vars

\* C20 witness: the upload has ended with the success of every WriteChunk,
\* the chunk is in the storage of a, and the DownloadFile made afterwards has
\* got a placement of the chunk without a, the report of (a, h) being still
\* under way.
C20_Witness ==
    /\ uploads # <<>>
    /\ uploads[Len(uploads)].done
    /\ client.op = "DownloadFile"
    /\ \E a \in RepairNodes, k \in 1..Len(client.placements) :
          LET p == client.placements[k]
          IN  /\ HasChunk(a, p.ChunkHandle)
              /\ BagIn(<<a, p.ChunkHandle>>, reports)
              /\ a \notin Range(p.ChunkServerAddresses)

\* ---- C21

\* the last requests of both callers are UploadFile calls of one name with
\* different sizes, and both have returned
BothUploaded(n) ==
    /\ \A c \in Callers : rpc[c].pc = "return" /\ rpc[c].op = "UploadFile"
                          /\ rpc[c].Filename = n /\ rpc[c].err = "nil"
    /\ rpc["c1"].Filesize # rpc["c2"].Filesize

\* C21: when two UploadFile calls of one name with different sizes have both
\* returned, the file record has the size and the chunk count of one of the
\* two calls, the one whose AddFile came last, and its chunk list is that
\* call's handles of the indices 0..ChunkCount-1, each once and in order.
C21_LastWriterWins ==
    \A n \in MasterNames :
        BothUploaded(n) =>
            /\ n \in DOMAIN files
            /\ \E c \in Callers :
                  /\ files[n].Filesize = rpc[c].Filesize
                  /\ files[n].ChunkCount = rpc[c].numChunks
            /\ files[n].Chunks =
                  [i \in 1..files[n].ChunkCount |-> GenerateChunkHandle(n, i - 1)]

\* ---- C25

\* the client's WriteChunk call for address ai of placement ci ends in this step
WriteChunkEnds == client.pc = "WriteChunk" /\ client' # client

\* C25: a WriteChunk call either stores the bytes, leaves the handle in the
\* Storage.chunks of the server and starts one report goroutine of (address,
\* handle), or it answers no success, leaves Storage.chunks of every server
\* as it was and starts no report; only the first can be a success for the
\* client.  A report goroutine that ends, with or without reaching the
\* master, is not started again and leaves the storage of every server alone.
C25_WriteChunkOutcome ==
    [][/\ WriteChunkEnds =>
            LET loc == client.placements[client.ci]
                address == loc.ChunkServerAddresses[client.ai]
                h == loc.ChunkHandle
                report == SetToBag({<<address, h>>})
                success == /\ h \in storage'[address].chunks
                           /\ h \in DOMAIN storage'[address].disk
                           /\ storage'[address].disk[h] = ChunkData(client.data, loc.ChunkIndex)
                           /\ reports' = reports (+) report
                failure == /\ \A a \in DOMAIN storage :
                                 storage'[a].chunks = storage[a].chunks
                           /\ reports' = reports
                           /\ client'.acked = client.acked
            IN  success \/ failure
       /\ reports' # reports /\ ~WriteChunkEnds =>
            /\ storage' = storage
            /\ \E p \in BagToSet(reports) : reports' = reports (-) SetToBag({p})]_vars

\* C25 witness: the upload has ended with an unreplicated chunk after a storage write
\* that failed part-way: the file of the chunk is shorter than the chunk, the
\* handle is not in Storage.chunks and no report was started.
C25_Witness ==
    /\ Len(uploads) = 1
    /\ uploads[1].done
    /\ ~uploads[1].replicated
    /\ client.pc = "idle"
    /\ client.op = "UploadFile"
    /\ client.placements # <<>>
    /\ reports = EmptyBag
    /\ \E a \in RepairNodes :
          LET h == client.placements[1].ChunkHandle
          IN  /\ a \in Range(client.placements[1].ChunkServerAddresses)
              /\ h \in DOMAIN storage[a].disk
              /\ Len(storage[a].disk[h]) < ChunkSize
              /\ ~HasChunk(a, h)
              /\ chunks[h].Locations = <<>>

\* ---- C26

\* C26: a Heartbeat(address, handles) leaves the sender registered with
\* LatestHeartbeat = now and with exactly the list of the request as its
\* inventory, whatever the inventory was before; the registrations of the
\* other chunk servers, the file records and the chunk records with their
\* locations are what they were; and no step of the master takes a
\* registration away or changes one otherwise.
C26_HeartbeatUpserts ==
    [][/\ DOMAIN chunkServers \subseteq DOMAIN chunkServers'
       /\ (chunkServers' # chunkServers \/ probe' # probe) =>
            /\ probe'.op = "Heartbeat"
            /\ DOMAIN chunkServers' = DOMAIN chunkServers \cup {probe'.address}
            /\ chunkServers'[probe'.address] =
                  [Address |-> probe'.address, LatestHeartbeat |-> now,
                   Chunks |-> probe'.handles]
            /\ \A b \in DOMAIN chunkServers \ {probe'.address} :
                  chunkServers'[b] = chunkServers[b]
            /\ files' = files
            /\ chunks' = chunks
            /\ now' = now]_vars

\* C26 witness: a heartbeat of n1 with one handle found n1 registered with
\* two other handles and replaced them, at a later time, beside the
\* registration of n2, a file record and a chunk record with a location.
C26_Witness ==
    /\ probe.op = "Heartbeat"
    /\ probe.address = "n1"
    /\ probe.before # <<>>
    /\ Len(probe.before[1]) = 2
    /\ chunkServers["n1"].LatestHeartbeat > 0
    /\ Len(chunkServers["n1"].Chunks) = 1
    /\ "n2" \in DOMAIN chunkServers
    /\ chunkServers["n2"].Chunks # <<>>
    /\ \E h \in DOMAIN chunks : chunks[h].Locations # <<>>
    /\ files # <<>>

\* ---- C27

\* C27: a ReportChunk of a handle that has no chunk record makes no chunk
\* record and changes no file record, chunk record or registration, and it
\* answers success as every ReportChunk does; an AddChunkToFile of a name
\* that has no file record changes nothing either.
C27_AbsentIsNoOp ==
    [][(probe' # probe \/ files' # files \/ chunks' # chunks) =>
          /\ probe'.op = "ReportChunk" => probe'.Success
          /\ (\/ probe'.op = "ReportChunk" /\ probe'.chunkHandle \notin DOMAIN chunks
              \/ probe'.op = "AddChunkToFile" /\ probe'.filename \notin DOMAIN files) =>
                /\ files' = files
                /\ chunks' = chunks
                /\ chunkServers' = chunkServers]_vars

\* C27 witness: a ReportChunk has found no chunk record and an AddChunkToFile
\* no file record, the last call being such a ReportChunk, while there are a
\* file record, a chunk record and a registration that they left alone.
C27_Witness ==
    /\ probe.op = "ReportChunk"
    /\ probe.chunkHandle \notin DOMAIN chunks
    /\ probe.absent = {"ReportChunk", "AddChunkToFile"}
    /\ files # <<>>
    /\ chunks # <<>>
    /\ chunkServers # <<>>

\* ---- C28

RECURSIVE Attempts(_, _)
\* the (placement, address) pairs of the placements from the k-th on, as
\* positions <<ci, ai>>, in the order of the response
Attempts(placements, k) ==
    IF k > Len(placements) THEN <<>>
    ELSE [ai \in 1..Len(placements[k].ChunkServerAddresses) |-> <<k, ai>>]
             \o Attempts(placements, k + 1)

\* the place of the client's WriteChunk call among the attempts
AttemptNo(cl) ==
    CHOOSE k \in 1..Len(Attempts(cl.placements, 1)) :
        Attempts(cl.placements, 1)[k] = <<cl.ci, cl.ai>>

\* the client is about to make the k-th attempt, or has made them all
AtAttempt(cl, k) ==
    IF k > Len(Attempts(cl.placements, 1))
    THEN cl.pc = "idle"
    ELSE cl.pc = "WriteChunk" /\ <<cl.ci, cl.ai>> = Attempts(cl.placements, 1)[k]

\* C28: when the UploadFile response has arrived the client is at the first
\* (placement, address) pair of the response, the placements being in the
\* order of their chunk indices; every WriteChunk that ends, with or without
\* success, takes the client to the next pair, and after the last pair the
\* upload ends; the storage of a chunk server changes in no other step of the
\* client than the WriteChunk to that server, and an UploadFile that fails
\* before the response leaves the client idle.
C28_AttemptSequence ==
    [][/\ (client.pc = "UploadFile" /\ client' # client) =>
            /\ client'.placements = rpc[ClientName].chunkLocations
            /\ \A k \in 1..Len(client'.placements) :
                  client'.placements[k].ChunkIndex = k - 1
            /\ AtAttempt(client', 1)
       /\ WriteChunkEnds =>
            /\ client'.placements = client.placements
            /\ AtAttempt(client', AttemptNo(client) + 1)
            /\ \A a \in DOMAIN storage :
                  storage'[a] # storage[a] =>
                      a = client.placements[client.ci].ChunkServerAddresses[client.ai]
       /\ ~WriteChunkEnds => storage' = storage
       /\ (client.pc = "idle" /\ client'.op = "UploadFile" /\ client' # client) =>
            \/ client'.pc = "UploadFile"
            \/ client'.pc = "idle" /\ client'.err # "nil"]_vars

\* C28 witness: an upload of two chunks to two chunk servers each has ended
\* after all four attempts, the first of which failed while the last stored
\* its chunk.
C28_Witness ==
    /\ client.op = "UploadFile"
    /\ client.pc = "idle"
    /\ Len(Attempts(client.placements, 1)) = 4
    /\ uploads[1].done
    /\ 1 \notin client.acked
    /\ LET first == client.placements[1]
           last == client.placements[2]
       IN  /\ ~HasChunk(first.ChunkServerAddresses[1], first.ChunkHandle)
           /\ HasChunk(last.ChunkServerAddresses[2], last.ChunkHandle)

\* ---- C29

\* C29: for a file of n bytes and the placements of the indices
\* 0..ceil(n/ChunkSize)-1, the slice of index i is the bytes from i*ChunkSize
\* up to but not including min((i+1)*ChunkSize, n); it is not empty and at
\* most ChunkSize long, only the last is shorter, and the slices put together
\* in the order of the indices are the file.
C29_SlicesPartition ==
    probe.op = "uploadChunk" =>
        LET bytes == probe.fileData
            n == Len(bytes)
            i == probe.i - 1
            end == IF (i + 1) * ChunkSize < n THEN (i + 1) * ChunkSize ELSE n
        IN  /\ probe.numChunks = Ceil(n)
            /\ Len(probe.chunkData) = end - i * ChunkSize
            /\ \A k \in 1..Len(probe.chunkData) :
                  probe.chunkData[k] = bytes[i * ChunkSize + k]
            /\ Len(probe.chunkData) \in 1..ChunkSize
            /\ Len(probe.chunkData) < ChunkSize => i = probe.numChunks - 1
            /\ probe.joined = SubSeq(bytes, 1, end)
            /\ probe.i = probe.numChunks => probe.joined = bytes
            /\ n = ChunkSize + 1 =>
                  Len(probe.chunkData) = IF i = 0 THEN ChunkSize ELSE 1

\* C29 witness: a file of ChunkSize + 1 bytes has been sliced to the end:
\* the last slice is its last byte, which differs from the byte before.
C29_Witness ==
    /\ probe.op = "uploadChunk"
    /\ Len(probe.fileData) = ChunkSize + 1
    /\ probe.i = 2
    /\ probe.chunkData = <<1>>
    /\ probe.fileData[ChunkSize] = 0

\* ---- C30

\* C30: every address among the locations of a chunk record is a chunk
\* server that has the handle in its Storage.chunks.
C30_LocationSoundness ==
    \A h \in DOMAIN chunks :
        \A a \in Range(chunks[h].Locations) :
            a \in DOMAIN storage /\ HasChunk(a, h)

\* C30 witness: the file was uploaded again and the WriteChunk of the second
\* upload failed part-way; the chunk record made anew has the chunk server as
\* a location by the report of the first upload, and the handle is in its
\* Storage.chunks, over a file that is shorter than the chunk.
C30_Witness ==
    /\ Len(uploads) = 2
    /\ uploads[2].done
    /\ ~uploads[2].replicated
    /\ \E h \in DOMAIN chunks :
          \E a \in Range(chunks[h].Locations) :
              /\ HasChunk(a, h)
              /\ Len(storage[a].disk[h]) < ChunkSize

\* ---- C24

\* a goroutine holds at most one lock, and only between the Lock at the head
\* of a method and the Unlock at its return
OneLockInsideMethod ==
    \A t \in DOMAIN threads :
        /\ Cardinality(Holds(t)) <= 1
        /\ Holds(t) # {} <=> threads[t].at \in {"locked", "Unlock"}

\* as long as a handler has not returned, some handler can take a step
NoDeadlock ==
    (\E t \in Callers : threads[t].at # "idle") =>
        \E t \in Callers : ENABLED MetaLockStep(t)

\* C24: a handler of the master holds Metadata.mu only inside a method call,
\* never a second lock and never the same lock twice; there is no state in
\* which handlers wait and none can go on; and every UploadFile,
\* DownloadFile, ListFiles, Heartbeat and ReportChunk call that was taken up
\* returns, whatever calls run beside it.
C24_CallsComplete ==
    /\ [](OneLockInsideMethod /\ NoDeadlock)
    /\ \A t \in Callers : (threads[t].at # "idle") ~> (threads[t].at = "idle")

\* C24 witness: a handler is inside AddChunk of an UploadFile with the lock,
\* and the other handler waits at the Lock of a ReportChunk.
C24_Witness ==
    /\ threads["c1"].at = "locked"
    /\ threads["c1"].req.op = "UploadFile"
    /\ MetadataMethod("c1") = "AddChunk"
    /\ mu["metadata"].w = "c1"
    /\ threads["c2"].at = "Lock"
    /\ threads["c2"].req.op = "ReportChunk"

\* ---- C22

\* goroutine t is inside WriteChunk or DeleteChunk
InWrite(t) == InMethod(t) /\ threads[t].op \in WriteMethods

\* the bytes are the beginning of one of the contents written, or all of it
OneWritersBytes(bytes) == \E d \in StoreLockData : IsPrefix(bytes, d)

\* C22: while a goroutine is inside WriteChunk or DeleteChunk, between the
\* Lock and the return, no other goroutine of the chunk server is inside any
\* method of its Storage; a WriteChunk that is about to return success leaves
\* the handle in Storage.chunks and exactly its own bytes in the file, a
\* ReadChunk that is about to return bytes returns the file as it is, and a
\* file never holds bytes of two writers.
C22_StorageExclusion ==
    /\ \A t, u \in DOMAIN threads :
          (t # u /\ threads[t].side = threads[u].side /\ InWrite(t)) => ~InMethod(u)
    /\ \A t \in DOMAIN threads :
          LET a == threads[t].side
              h == threads[t].chunkHandle
              returns == threads[t].at = "Unlock" /\ threads[t].err = "nil"
          IN  /\ (threads[t].op = "WriteChunk" /\ returns) =>
                    HasChunk(a, h) /\ FileOf(a, h) = threads[t].data
              /\ (threads[t].op = "ReadChunk" /\ returns) =>
                    threads[t].out = FileOf(a, h)
              /\ (threads[t].op = "DeleteChunk" /\ returns) =>
                    ~HasChunk(a, h) /\ h \notin DOMAIN storage[a].disk
    /\ \A a \in DOMAIN storage :
          \A h \in DOMAIN storage[a].disk : OneWritersBytes(storage[a].disk[h])

\* C22 witness: a WriteChunk has opened the file of its chunk and is about
\* to write its bytes, while a WriteChunk of other bytes for the same handle
\* and a ReadChunk wait for the lock.
C22_Witness ==
    /\ threads["s1"].at = "os.WriteFile.write"
    /\ mu[StoreNode].w = "s1"
    /\ FileOf(StoreNode, threads["s1"].chunkHandle) = <<>>
    /\ threads["s2"].at = "Lock"
    /\ threads["s2"].op = "WriteChunk"
    /\ threads["s2"].chunkHandle = threads["s1"].chunkHandle
    /\ threads["s2"].data # threads["s1"].data
    /\ threads["s3"].at = "Lock"
    /\ threads["s3"].op = "ReadChunk"

\* ---- C23

\* the statements at which a goroutine does disk I/O
DiskIO == {"os.WriteFile.open", "os.WriteFile.write", "os.ReadFile", "os.Remove"}

\* the statements at which a goroutine can be suspended: it takes up or
\* answers an RPC, sends a heartbeat, starts a chunk report, or does disk I/O
SuspensionPoints ==
    {"idle", "respond", "rpc Heartbeat", "go reportChunkToMaster"} \cup DiskIO

\* goroutine t runs the statement it is at
Runs(t) == threads'[t] # threads[t]

\* C23 as stated: a goroutine that runs a suspension point (an RPC taken up
\* or answered, a heartbeat sent, a chunk report started, disk I/O on the
\* chunk server) holds neither the metadata lock nor a storage lock.
C23_NoSuspensionUnderLock ==
    [][\A t \in DOMAIN threads :
          (threads[t].at \in SuspensionPoints /\ Runs(t)) => Holds(t) = {}]_vars

\* C23 amended: a goroutine that takes up or answers an RPC, sends a
\* heartbeat or starts a chunk report holds no lock, and a goroutine that
\* holds the metadata lock is inside a method of Metadata, which has no
\* suspension point; disk I/O on a chunk server is done holding the lock of
\* its Storage and no other lock, the exclusive side for os.WriteFile and
\* os.Remove and the shared side for os.ReadFile.
C23_OnlyDiskIOUnderStorageLock ==
    /\ [](\A t \in DOMAIN threads :
             "metadata" \in Holds(t) =>
                 threads[t].side = "master" /\ threads[t].at \in {"locked", "Unlock"})
    /\ [][\A t \in DOMAIN threads :
             (threads[t].at \in SuspensionPoints /\ Runs(t)) =>
                 IF threads[t].at \in DiskIO
                 THEN /\ Holds(t) = {threads[t].side}
                      /\ IF threads[t].at = "os.ReadFile"
                         THEN t \in mu[threads[t].side].r
                         ELSE mu[threads[t].side].w = t
                 ELSE Holds(t) = {}]_vars

\* C23 witness: a goroutine of the chunk server is writing the file of a
\* chunk under the exclusive storage lock while a goroutine of the master
\* registers the heartbeat of that chunk server under the metadata lock.
C23_Witness ==
    /\ \E s \in LocksThreads :
          /\ threads[s].at = "os.WriteFile.write"
          /\ mu[threads[s].side].w = s
    /\ \E t \in Callers :
          /\ threads[t].at = "locked"
          /\ threads[t].req.op = "Heartbeat"
          /\ mu["metadata"].w = t

\* ---- C33

\* C33 as stated: every placement of a DownloadFile response has
\* ChunkIndex * ChunkSize < Filesize, so the client's copy of the chunk into
\* its buffer of Filesize bytes starts inside the buffer.
C33_DownloadInBounds ==
    \A c \in DOMAIN rpc :
        (rpc[c].pc = "return" /\ rpc[c].op = "DownloadFile" /\ rpc[c].err = "nil") =>
            \A k \in 1..Len(rpc[c].chunkLocations) :
                rpc[c].chunkLocations[k].ChunkIndex * ChunkSize < rpc[c].Filesize

\* ---- C34

\* C34: every handle in the chunk list of a file record has a chunk record,
\* also in the middle of an upload and when uploads of one name overlap, and
\* no DownloadFile handler ends with the error "chunk not found".
C34_ListedChunksHaveRecords ==
    /\ \A f \in DOMAIN files : Range(files[f].Chunks) \subseteq DOMAIN chunks
    /\ \A c \in DOMAIN rpc :
          (rpc[c].pc # "idle" /\ rpc[c].op = "DownloadFile") => rpc[c].err # "chunk not found"

\* C34 witness: a DownloadFile has answered with the placements of a file
\* while an UploadFile of the same name is between its AddChunk and its
\* AddChunkToFile.
C34_Witness ==
    \E c, d \in DOMAIN rpc :
        /\ rpc[c].pc = "return" /\ rpc[c].op = "DownloadFile"
        /\ rpc[c].err = "nil" /\ rpc[c].chunkLocations # <<>>
        /\ rpc[d].pc = "AddChunkToFile"
        /\ rpc[d].Filename = rpc[c].Filename

\* ---- C37

\* C37: the chunk record under key h has ChunkHandle = h =
\* GenerateChunkHandle(Filename, ChunkIndex) and Version = 1, and no step,
\* an UploadFile that makes the record again included, removes a record or
\* changes its Filename, ChunkIndex or Version.
C37_ChunkRecordSelfConsistent ==
    /\ [](\A h \in DOMAIN chunks :
             /\ chunks[h].ChunkHandle = h
             /\ h = GenerateChunkHandle(chunks[h].Filename, chunks[h].ChunkIndex)
             /\ chunks[h].Version = 1)
    /\ [][\A h \in DOMAIN chunks :
             /\ h \in DOMAIN chunks'
             /\ chunks'[h].Filename = chunks[h].Filename
             /\ chunks'[h].ChunkIndex = chunks[h].ChunkIndex
             /\ chunks'[h].Version = chunks[h].Version]_vars

\* C37 witness: an UploadFile of one chunk has made the record of chunk 0
\* again, which lost the location it had, while the record of chunk 1 that
\* an earlier UploadFile of the name made is still there.
C37_Witness ==
    \E n \in CoordNames :
        /\ rpc["c1"].pc = "AddChunkToFile"
        /\ rpc["c1"].Filename = n
        /\ rpc["c1"].Filesize = 1
        /\ GenerateChunkHandle(n, 1) \in DOMAIN chunks
        /\ chunks[GenerateChunkHandle(n, 1)].Locations # <<>>
        /\ chunks[GenerateChunkHandle(n, 0)].Locations = <<>>

\* ---- C36

\* the upload the client was asked for last
LastUpload == uploads[Len(uploads)]

\* the file record of an empty file
EmptyFileRecord(filename) ==
    [Filename |-> filename, Filesize |-> 0, ChunkCount |-> 0, Chunks |-> <<>>]

\* the errors of a Client.UploadFile that ended before its RPC was sent
UploadNotSent == {"failed to read file", "failed to request file upload"}

\* C36: the upload of an empty file makes the file record with size 0, chunk
\* count 0 and no chunk, gets no placement, makes no chunk record and calls
\* no chunk server, and ends without error; a download of the name after it
\* gets an answer without placements whenever the master is reached, calls
\* no chunk server and writes an empty output, failing only when the master
\* is not reached or the output file cannot be written.
C36_ZeroByteFile ==
    /\ []((uploads # <<>> /\ LastUpload.data = <<>>) =>
            /\ files[LastUpload.name] = EmptyFileRecord(LastUpload.name)
            /\ (client.op = "UploadFile" /\ client.err \notin UploadNotSent) =>
                  /\ client.pc \in {"UploadFile", "idle"}
                  /\ client.placements = <<>>
                  /\ rpc[ClientName].pc = "return" /\ rpc[ClientName].chunkLocations = <<>>
                  /\ client.pc = "idle" => client.err = "nil" /\ LastUpload.done
            /\ client.op = "DownloadFile" =>
                  /\ client.pc \in {"DownloadFile", "WriteFile", "idle"}
                  /\ client.tried = <<>>
                  /\ client.placements = <<>>
                  /\ client.pc = "DownloadFile" =>
                        /\ rpc[ClientName].pc = "return"
                        /\ rpc[ClientName].err = "nil"
                        /\ rpc[ClientName].Filesize = 0
                        /\ rpc[ClientName].chunkLocations = <<>>
                  /\ client.pc = "idle" =>
                        /\ client.err \in {"nil", "failed to request download",
                                           "failed to write file"}
                        /\ client.err = "nil" => client.written /\ client.output = <<>>)
    /\ [][(uploads' # <<>> /\ LastUpload'.data = <<>>) =>
             /\ DOMAIN chunks' = DOMAIN chunks
             /\ storage' = storage
             /\ reports' \sqsubseteq reports]_vars

\* C36 witness: the client has uploaded a file of one chunk and then an empty
\* file under its name, and a download of the name has written an empty
\* output, while no chunk server has ever sent a heartbeat.
C36_Witness ==
    /\ Len(uploads) = 2
    /\ uploads[1].data # <<>>
    /\ uploads[2].data = <<>>
    /\ client.op = "DownloadFile"
    /\ client.pc = "idle"
    /\ client.err = "nil"
    /\ client.written
    /\ client.output = <<>>
    /\ chunkServers = <<>>

\* ---- C32

\* C32 as stated: when no name is uploaded twice, a chunk server whose
\* Storage has the handle of chunk i of an upload holds exactly the bytes
\* of that chunk, whichever writes failed.
C32_ReplicasIdentical ==
    \A k \in 1..Len(uploads) :
        \A i \in 0..(CalculateNumChunks(Len(uploads[k].data)) - 1) :
            \A a \in DOMAIN storage :
                LET h == GenerateChunkHandle(uploads[k].name, i)
                IN  HasChunk(a, h) =>
                        /\ h \in DOMAIN storage[a].disk
                        /\ storage[a].disk[h] = ChunkData(uploads[k].data, i)

\* ---- C31

\* the second upload of the name has reached the master; the reports of the
\* first had ended when it did
SecondUploadAfterReports == Len(uploads) = 2

\* the bytes of the first upload
FirstBytes == Range(uploads[1].data)

\* C31: when a name was uploaded, its reports have ended, and it is uploaded
\* again with other bytes, of the same or another length, then from the
\* UploadFile of the second upload on every address the master lists for a
\* chunk of the file holds the bytes of that chunk of the second upload; a
\* download reads only such bytes, has no byte of the first upload in its
\* buffer, and when it ends without error it has written exactly the bytes
\* of the second upload.
C31_NoStaleBytes ==
    SecondUploadAfterReports =>
        LET name == uploads[2].name
            data == uploads[2].data
        IN  /\ \A k \in 1..Len(files[name].Chunks) :
                  LET h == files[name].Chunks[k]
                  IN  \A a \in Range(chunks[h].Locations) :
                          /\ StorageHasChunk(a, h)
                          /\ StorageReadChunk(a, h) = ChunkData(data, chunks[h].ChunkIndex)
            /\ client.op = "DownloadFile" =>
                  /\ Range(client.fileData) \cap FirstBytes = {}
                  /\ Range(client.output) \cap FirstBytes = {}
                  /\ \A k \in 1..Len(client.tried) :
                        client.tried[k].ok =>
                            client.tried[k].data =
                                ChunkData(data, client.placements[client.tried[k].ci].ChunkIndex)
                  /\ (client.pc = "idle" /\ client.err = "nil") =>
                        client.written /\ client.output = data

\* C31 witness: the second upload has another length than the first, a chunk
\* server still holds chunk 0 of the first upload because the second upload's
\* write did not get there, and a download has written the bytes of the
\* second upload.
C31_Witness ==
    /\ SecondUploadAfterReports
    /\ Len(uploads[1].data) # Len(uploads[2].data)
    /\ \E a \in DOMAIN storage :
          LET h == GenerateChunkHandle(uploads[1].name, 0)
          IN  StorageHasChunk(a, h) /\ StorageReadChunk(a, h) = ChunkData(uploads[1].data, 0)
    /\ client.op = "DownloadFile"
    /\ client.pc = "idle"
    /\ client.err = "nil"
    /\ client.output = uploads[2].data

\* ---- C35

\* C35: a chunk server whose heartbeat of every tick arrives is not
\* registered before its first tick, HeartbeatInterval after its start; once
\* it is registered its last heartbeat is less than LivenessWindow old at
\* every instant, so every call of GetAvailableChunkServers finds it live
\* and, when it asks for as many servers as are registered, returns it.
C35_HealthyNodeStaysLive ==
    LET hb == threads[HealthyNode]
    IN  /\ (hb.at = "stopped" \/ now < hb.started + HeartbeatInterval) =>
              HealthyNode \notin DOMAIN chunkServers
        /\ HealthyNode \in DOMAIN chunkServers =>
              /\ now - chunkServers[HealthyNode].LatestHeartbeat < LivenessWindow
              /\ HealthyNode \in LiveServers
        /\ (avail.k # -1 /\ HealthyNode \in avail.registered) =>
              /\ HealthyNode \in avail.live
              /\ avail.k >= Cardinality(avail.registered) =>
                    HealthyNode \in Range(avail.servers)

\* C35 witness: 30 s on, the heartbeat of the last tick but one arrived at
\* its deadline, and a call that asked for two servers returned the healthy
\* one alone because the other has been silent for LivenessWindow.
C35_Witness ==
    /\ now = LivenessWindow
    /\ HealthyNode \in DOMAIN chunkServers
    /\ chunkServers[HealthyNode].LatestHeartbeat =
          2 * HeartbeatInterval + HeartbeatTimeout
    /\ avail.k = 2
    /\ avail.registered = {HealthyNode, SilentNode}
    /\ avail.servers = <<HealthyNode>>

=============================================================================
